---------------------------- MODULE Spec2Model ----------------------------
(***************************************************************************)
(* A model of bbox-moto: the train/val/test splitter (split_yolo_obb.py),  *)
(* the source/target sync (sync_to_yolo_obb.py), the class/angle           *)
(* normalizer (convert_label_indices.py), the auditor                      *)
(* (check_dataset_counts.py), the rectangular-box to polygon converter     *)
(* (convert_yolo_bbox_to_polygon.py), the oriented-box converter           *)
(* (convert_obb_labels_to_corners.py) and the inference service            *)
(* (api/index.py).  Every tool is a one-shot, single-threaded script whose *)
(* only state is the files on disk; the service handles requests that      *)
(* interleave at its await.  Each has a specification of its own below,    *)
(* and the variables of the others stay idle in it.                        *)
(***************************************************************************)
EXTENDS Integers, Sequences, FiniteSets, TLC

VARIABLES
    \* ---- splitter (split_yolo_obb.py) ----
    imgFiles,     \* image files under image_dir: [stem, ext, dir]
    lblFiles,     \* label files under label_dir: [stem, ext, dir]
    sp_pc,        \* position of main()
    sp_err,       \* the error that ended main(), "" when none
    run,          \* 1: first run of the script, 2: a second run on the same files
    ratios,       \* args.split_ratios, as numerators over Den
    seed,         \* args.seed
    pairs,        \* the list gather_pairs returns (shuffled in place by split_dataset)
    split_data,   \* the dict split_dataset returns
    out_dirs,     \* splits whose images/ and labels/ directories exist in output_dir
    out_files,    \* files copied into output_dir: [kind, split, name, src]
    prev_split,   \* split_data of the first run, kept for comparison
    \* ---- sync (sync_to_yolo_obb.py) ----
    sy_src_imgs,  \* files of args.source_images: [stem, ext, dir]
    sy_src_lbls,  \* the *.txt files of args.source_labels: stem -> text
    sy_target,    \* files of args.target: [kind, split, stem, ext, body]
    sy_dirs,      \* directories of args.target: <<kind, split>>
    sy_args,      \* [default_split, angle, dry_run]
    sy_pc,        \* position of copy_missing()
    sy_run,       \* 1: first run, 2: a second run with the same arguments
    sy_maps,      \* the four dicts copy_missing builds before its loop
    sy_todo,      \* stems the loop has still to visit
    sy_added,     \* [imgs, lbls]: added_imgs and added_lbls
    sy_before,    \* target files and directories when the current run started
    sy_prev_added, \* the counters the first run printed
    \* ---- normalizer (convert_label_indices.py) ----
    nm_files,     \* the *.txt files under labels_dir in sorted order, each a raw text
    nm_dry,       \* args.dry_run
    nm_pc,        \* position of main()
    nm_i,         \* index of the file the loop visits next
    nm_run,       \* 1: first run, 2: a second run on the same tree
    nm_changed,   \* indices of the files rewrite_file returned True for
    nm_written,   \* indices of the files path.write_text was called on
    nm_printed,   \* the lines main printed
    nm_prev,      \* nm_changed and nm_written of the first run
    \* ---- auditor (check_dataset_counts.py) ----
    au_files,     \* the files under <root>/images/<split> and <root>/labels/<split>
    au_case,      \* TRUE when the file system tells a.JPG from a.jpg
    au_splits,    \* args.splits.split(",")
    au_limit,     \* args.limit
    au_pc,        \* position of main()
    au_i,         \* index in au_splits of the split the loop visits next
    au_reports,   \* what each iteration of the loop printed
    \* ---- box to polygon converter (convert_yolo_bbox_to_polygon.py) ----
    pg_dir,       \* TRUE when a box_motos directory exists
    pg_files,     \* its *.txt files in sorted order, each a sequence of lines
    pg_pc,        \* position of main()
    pg_f,         \* index of the file convert_file is working on
    pg_l,         \* line_number of the line convert_file reads next
    pg_lines,     \* converted_lines
    pg_origin,    \* the line_number each entry of converted_lines was made from
    pg_warn,      \* the [AVISO] messages printed
    pg_dest,      \* the files written to converted/
    \* ---- oriented box converter (convert_obb_labels_to_corners.py) ----
    ob_dir,       \* TRUE when labels_dir is a directory
    ob_files,     \* the *.txt files under labels_dir in sorted order, each a text
    ob_args,      \* angle_format, default_angle, order and dry_run
    ob_pc,        \* position of main()
    ob_i,         \* index of the file the loop visits next
    ob_run,       \* 1: first run, 2: a second run on the same tree
    ob_changed,   \* indices of the files process_file returned True for
    ob_written,   \* indices of the files path.write_text was called on
    ob_printed,   \* the lines main and process_file printed
    ob_orig,      \* the files as the first run found them
    ob_prev,      \* the files as the first run left them
    \* ---- inference service (api/index.py) ----
    ap_model,     \* the module's MODEL_PATH and model, loaded at import
    ap_reqs,      \* the POST /predict requests received, each with its position
    ap_predicts   \* the requests model.predict was called for, in call order

splitVars == <<imgFiles, lblFiles, sp_pc, sp_err, run, ratios, seed, pairs, split_data,
               out_dirs, out_files, prev_split>>

syncVars == <<sy_src_imgs, sy_src_lbls, sy_target, sy_dirs, sy_args, sy_pc, sy_run,
              sy_maps, sy_todo, sy_added, sy_before, sy_prev_added>>

normVars == <<nm_files, nm_dry, nm_pc, nm_i, nm_run, nm_changed, nm_written,
              nm_printed, nm_prev>>

auditVars == <<au_files, au_case, au_splits, au_limit, au_pc, au_i, au_reports>>

polyVars == <<pg_dir, pg_files, pg_pc, pg_f, pg_l, pg_lines, pg_origin, pg_warn, pg_dest>>

obbVars == <<ob_dir, ob_files, ob_args, ob_pc, ob_i, ob_run, ob_changed, ob_written,
             ob_printed, ob_orig, ob_prev>>

apiVars == <<ap_model, ap_reqs, ap_predicts>>

vars == <<splitVars, syncVars, normVars, auditVars, polyVars, obbVars, apiVars>>

\* what each tool leaves alone
splitRest == <<syncVars, normVars, auditVars, polyVars, obbVars, apiVars>>
syncRest == <<splitVars, normVars, auditVars, polyVars, obbVars, apiVars>>
normRest == <<splitVars, syncVars, auditVars, polyVars, obbVars, apiVars>>
auditRest == <<splitVars, syncVars, normVars, polyVars, obbVars, apiVars>>
polyRest == <<splitVars, syncVars, normVars, auditVars, obbVars, apiVars>>
obbRest == <<splitVars, syncVars, normVars, auditVars, polyVars, apiVars>>
apiRest == <<splitVars, syncVars, normVars, auditVars, polyVars, obbVars>>

-----------------------------------------------------------------------------
(* Bounds *)

\* stems of the splitter's source directories are 1..MaxStems (the integer
\* order stands for the lexicographic order of the stem strings)
MaxStems == 3
\* stems of the re-run specification, whose directories may hold several
\* files of one stem
MaxDupStems == 2
\* a ratio is a multiple of 1/Den
Den == 4
\* stems of the sync's source and target directories are 1..MaxSyncStems
MaxSyncStems == 1
\* a label line holds at most MaxFields fields
MaxFields == 7
\* a label file holds at most MaxLines lines
MaxLines == 2
\* the normalizer's labels_dir holds at most MaxNormFiles files
MaxNormFiles == 1
\* the audited splits hold files of at most MaxAuditStems stems
MaxAuditStems == 1
\* --splits names at most MaxSplitArgs splits
MaxSplitArgs == 2
\* box_motos holds at most MaxPolyFiles files of at most MaxPolyLines lines in all
MaxPolyFiles == 1
MaxPolyLines == 1
\* decimal numbers are held with IntDigits digits before the point and
\* FracDigits digits after it
IntDigits == 2
FracDigits == 32
\* getcontext().prec
Prec == 28
\* the oriented box converter's labels_dir holds at most MaxObbFiles files of
\* at most MaxObbLines lines in all
MaxObbFiles == 2
MaxObbLines == 2
\* floats are held with FloatIntLimbs groups of four decimal digits before the
\* point and FloatFracLimbs groups after it
FloatIntLimbs == 5
FloatFracLimbs == 16
\* the significand of a Python float has FloatBits bits
FloatBits == 53
\* the digits after the point in format_float's f"{value:.15f}"
FormatDecimals == 15
\* the service receives at most MaxRequests requests
MaxRequests == 3
\* model.predict takes at most MaxMillis milliseconds
MaxMillis == 1

-----------------------------------------------------------------------------
(* Helpers that stand for Python built-ins *)

Max(a, b) == IF a >= b THEN a ELSE b
Min(a, b) == IF a <= b THEN a ELSE b
Abs(a) == IF a < 0 THEN -a ELSE a

\* math.floor(num / den) for den > 0
Floor(num, den) == num \div den

\* a Python index of a slice, as slice.indices() adjusts it
SliceIndex(i, n) == IF i < 0 THEN Max(i + n, 0) ELSE Min(i, n)

\* s[lo:hi]
PySlice(s, lo, hi) ==
    LET a == SliceIndex(lo, Len(s))
        b == SliceIndex(hi, Len(s))
    IN  IF a >= b THEN <<>> ELSE SubSeq(s, a + 1, b)

Range(s) == {s[i] : i \in 1..Len(s)}

\* every order in which the elements of a set can be listed
Perms(S) ==
    {f \in [1..Cardinality(S) -> S] : \A i, j \in 1..Cardinality(S) : f[i] = f[j] => i = j}

RECURSIVE SortedSeq(_)
\* sorted(S) for a set of stems
SortedSeq(S) ==
    IF S = {} THEN <<>>
    ELSE LET m == CHOOSE x \in S : \A y \in S : x <= y
         IN  <<m>> \o SortedSeq(S \ {m})

\* the sets made of one choice per stem
PerStem(stems, choices) ==
    {UNION {c[s] : s \in stems} :
        c \in {d \in [stems -> UNION {choices[s] : s \in stems}] :
                 \A s \in stems : d[s] \in choices[s]}}

\* sum(ratios)
SumSeq(r) == r[1] + r[2] + r[3]

-----------------------------------------------------------------------------
(* split_yolo_obb.py *)

Splits == <<"train", "val", "test">>

ImageExts == <<"jpg", "jpeg", "png">>

ExtIndex(e) == CHOOSE i \in 1..Len(ImageExts) : ImageExts[i] = e

FileName(f) == <<f.stem, f.ext>>

\* The walk order of rglob is the file system's.  A dict assignment keeps the
\* file that the walk yields last among those of one key, so a listing is
\* given by the set of files that come last in their group.
LastListed(files, key) ==
    {L \in SUBSET files :
        \A f \in files : Cardinality({g \in L : key[g] = key[f]}) = 1}

\* the key of one rglob of the loop over image_exts
StemExt(files) == [f \in files |-> <<f.stem, f.ext>>]
\* Path.stem
StemOf(files) == [f \in files |-> f.stem]

\* images[stem], after the loops over image_exts and rglob
ImagesDict(last) ==
    [s \in {f.stem : f \in last} |->
        CHOOSE f \in last : /\ f.stem = s
                            /\ \A g \in last : g.stem = s => ExtIndex(g.ext) <= ExtIndex(f.ext)]

\* labels[stem]
LabelsDict(last) ==
    [s \in {f.stem : f \in last} |-> CHOOSE f \in last : f.stem = s]

\* common_ids without sorted(): the set's own iteration order
CommonIdsUnsorted(order) == order

\* common_ids of gather_pairs: `order` is the iteration order of the set
\* images.keys() & labels.keys(), which sorted() replaces
CommonIds(order) == SortedSeq(Range(order))

\* the list gather_pairs returns
GatherPairs(images, labels, order) ==
    LET ids == CommonIds(order)
    IN  [i \in 1..Len(ids) |-> [img |-> images[ids[i]], lbl |-> labels[ids[i]]]]

\* compute_split_indices that appends count instead of start + count
ComputeSplitIndicesNoStart(total, r) ==
    <<Floor(total * r[1], Den), Floor(total * r[2], Den), total>>

\* compute_split_indices(total, ratios)
ComputeSplitIndices(total, r) ==
    LET c1 == Floor(total * r[1], Den)
        c2 == Floor(total * r[2], Den)
    IN  <<c1, c1 + c2, total>>

\* math.isclose with abs_tol=1.0 in place of 1e-6
IsCloseToOneLoose(s) == Abs(s - Den) <= Den

\* math.isclose(sum(ratios), 1.0, abs_tol=1e-6), the sum being s/Den
IsCloseToOne(s) == Abs(s - Den) * 1000000 <= Den

\* the k-th draw of random.Random(seed), below n: a fixed function of the seed
\* and of the position of the draw, which is all the splitter relies on
RandBelow(sd, k, n) == (((sd + k) * 7919 + 104729) % 65536) % n

Swap(x, i, j) == [x EXCEPT ![i] = x[j], ![j] = x[i]]

RECURSIVE ShuffleFrom(_, _, _)
\* random.shuffle: for i in reversed(range(1, len(x))): j = randbelow(i + 1); swap
ShuffleFrom(x, i, sd) ==
    IF i < 1 THEN x
    ELSE ShuffleFrom(Swap(x, i + 1, RandBelow(sd, Len(x) - 1 - i, i + 1) + 1), i - 1, sd)

Shuffle(x, sd) == ShuffleFrom(x, Len(x) - 1, sd)

\* the dict split_dataset builds from the shuffled list
SplitData(p, r) ==
    LET idx == ComputeSplitIndices(Len(p), r)
    IN  [train |-> PySlice(p, 0, idx[1]),
         val   |-> PySlice(p, idx[1], idx[2]),
         test  |-> PySlice(p, idx[2], Len(p))]

NoSplit == [train |-> <<>>, val |-> <<>>, test |-> <<>>]

\* gather_pairs(image_dir, label_dir, image_exts), called by main
Gather ==
    /\ sp_pc = "start"
    /\ \E iL \in LastListed(imgFiles, StemExt(imgFiles)), lL \in LastListed(lblFiles, StemOf(lblFiles)) :
         LET images == ImagesDict(iL)
             labels == LabelsDict(lL)
             common == (DOMAIN images) \cap (DOMAIN labels)
         IN  \E order \in Perms(common) :
               IF common = {}
               THEN /\ sp_pc' = "error"
                    /\ sp_err' = "RuntimeError: no pairs"
                    /\ pairs' = <<>>
               ELSE /\ sp_pc' = "gathered"
                    /\ sp_err' = ""
                    /\ pairs' = GatherPairs(images, labels, order)
    /\ UNCHANGED <<imgFiles, lblFiles, run, ratios, seed, split_data, out_dirs,
                   out_files, prev_split>>
    /\ UNCHANGED splitRest

\* split_dataset(pairs, ratios, seed), called by main
SplitDataset(r, sd) ==
    /\ sp_pc = "gathered"
    /\ run = 2 => (r = ratios /\ sd = seed)
    /\ IF Len(r) # 3 \/ ~IsCloseToOne(SumSeq(r))
       THEN /\ sp_pc' = "error"
            /\ sp_err' = "ValueError: ratios"
            /\ ratios' = r
            /\ UNCHANGED <<seed, pairs, split_data>>
       ELSE /\ sp_pc' = "split"
            /\ sp_err' = ""
            /\ ratios' = r
            /\ seed' = sd
            /\ pairs' = Shuffle(pairs, sd)
            /\ split_data' = SplitData(pairs', r)
    /\ UNCHANGED <<imgFiles, lblFiles, run, out_dirs, out_files, prev_split>>
    /\ UNCHANGED splitRest

\* ensure_dirs(output_dir, split_data.keys())
EnsureDirs ==
    /\ sp_pc = "split"
    /\ out_dirs' = out_dirs \cup Range(Splits)
    /\ sp_pc' = "copy_train"
    /\ UNCHANGED <<imgFiles, lblFiles, sp_err, run, ratios, seed, pairs, split_data,
                   out_files, prev_split>>
    /\ UNCHANGED splitRest

\* the files copy_pairs writes for one split
Copied(split) ==
    {[kind |-> "images", split |-> split, name |-> FileName(p.img), src |-> p.img] :
        p \in Range(split_data[split])}
    \cup
    {[kind |-> "labels", split |-> split, name |-> FileName(p.lbl), src |-> p.lbl] :
        p \in Range(split_data[split])}

\* shutil.copy2 replaces a file of the same name in the same directory
Overwrite(old, new) ==
    {f \in old : ~\E g \in new : g.kind = f.kind /\ g.split = f.split /\ g.name = f.name}
    \cup new

\* one iteration of main's loop over split_data.items(): copy_pairs
CopyPairs(split, here, next) ==
    /\ sp_pc = here
    /\ out_files' = Overwrite(out_files, Copied(split))
    /\ sp_pc' = next
    /\ UNCHANGED <<imgFiles, lblFiles, sp_err, run, ratios, seed, pairs, split_data,
                   out_dirs, prev_split>>
    /\ UNCHANGED splitRest

\* the script is started again on the same directories, with the same
\* ratios and seed
RunAgain ==
    /\ sp_pc = "done"
    /\ run = 1
    /\ run' = 2
    /\ sp_pc' = "start"
    /\ prev_split' = split_data
    /\ pairs' = <<>>
    /\ split_data' = NoSplit
    /\ UNCHANGED <<imgFiles, lblFiles, sp_err, ratios, seed, out_dirs, out_files>>
    /\ UNCHANGED splitRest

Stems == 1..MaxStems
DupStems == 1..MaxDupStems

RatioNums == (-1)..(Den + 1)
RatioTriples == {<<a, b, c>> : a \in RatioNums, b \in RatioNums, c \in RatioNums}
Seeds == {42, 7}

\* ratio triples of the re-run specification: accepted ones
RerunRatios == {r \in RatioTriples : r[1] > 0 /\ r[2] > 0 /\ r[3] > 0 /\ SumSeq(r) = Den}

RootFile(s, e) == [stem |-> s, ext |-> e, dir |-> "."]
SubFile(s, e) == [stem |-> s, ext |-> e, dir |-> "sub"]

SplitIdle ==
    /\ sp_pc = "start"
    /\ sp_err = ""
    /\ run = 1
    /\ ratios = <<>>
    /\ seed = 0
    /\ pairs = <<>>
    /\ split_data = NoSplit
    /\ out_dirs = {}
    /\ out_files = {}
    /\ prev_split = NoSplit

-----------------------------------------------------------------------------
(* sync_to_yolo_obb.py *)

\* A label text is [lines, nl]: the lines str.splitlines() gives, each as the
\* fields str.split() gives (<<>> for a blank line), and whether the text ends
\* with a newline.
Text(lines, nl) == [lines |-> lines, nl |-> nl]

\* a line of n fields: class, x, y, w, h, angle and one more
Line(cls, n) == SubSeq(<<cls, "0.5", "0.4", "0.2", "0.1", "0.3", "9">> \o
                       [i \in 1..MaxFields |-> "9"], 1, n)

ClassTokens == {"0", "3"}
Lines == {<<>>} \cup {Line(c, n) : c \in ClassTokens, n \in 1..MaxFields}
LineSeqs == UNION {[1..k -> Lines] : k \in 0..MaxLines}
Texts == {Text(l, nl) : l \in LineSeqs, nl \in BOOLEAN} \ {Text(<<>>, TRUE)}

RECURSIVE NormalizeLinesAppendOnly(_, _)
\* the loop of normalize_label without its branch `elif len(parts) >= 6`
NormalizeLinesAppendOnly(lines, angle_value) ==
    IF lines = <<>> THEN <<>>
    ELSE LET parts == Head(lines)
             rest == NormalizeLinesAppendOnly(Tail(lines), angle_value)
             zero == IF parts # <<>> THEN [parts EXCEPT ![1] = "0"] ELSE parts
         IN  IF parts = <<>> THEN rest
             ELSE IF Len(zero) = 5 THEN <<Append(zero, angle_value)>> \o rest
             ELSE <<zero>> \o rest

RECURSIVE NormalizeLines(_, _)
\* the loop of normalize_label over text.splitlines()
NormalizeLines(lines, angle_value) ==
    IF lines = <<>> THEN <<>>
    ELSE LET parts == Head(lines)
             rest == NormalizeLines(Tail(lines), angle_value)
             zero == IF parts # <<>> THEN [parts EXCEPT ![1] = "0"] ELSE parts
         IN  IF parts = <<>> THEN rest
             ELSE IF Len(zero) = 5 THEN <<Append(zero, angle_value)>> \o rest
             ELSE IF Len(zero) >= 6 THEN <<[zero EXCEPT ![6] = angle_value]>> \o rest
             ELSE <<zero>> \o rest

\* normalize_label(text, angle_value)
NormalizeLabel(text, angle_value) ==
    LET out == NormalizeLines(text.lines, angle_value)
    IN  Text(out, text.nl /\ out # <<>>)

\* map_stems_by_split that looks into the train split only
MapStemsBySplitTrainOnly(target, kind) ==
    [s \in {f.stem : f \in {g \in target : g.kind = kind /\ g.split = "train"}} |-> "train"]

\* map_stems_by_split(root, kind): the last split, in the order train, val,
\* test, that holds a file of the stem
MapStemsBySplit(target, kind) ==
    [s \in {f.stem : f \in {g \in target : g.kind = kind}} |->
        Splits[CHOOSE i \in 1..3 :
                 /\ \E f \in target : f.kind = kind /\ f.stem = s /\ f.split = Splits[i]
                 /\ \A j \in (i + 1)..3 :
                      ~\E f \in target : f.kind = kind /\ f.stem = s /\ f.split = Splits[j]]]

\* the split of an iteration that ignores the target's dicts
DestSplitDefault(stem, maps, default_split) == default_split

\* target_img_split.get(stem) or target_lbl_split.get(stem) or args.default_split
DestSplit(stem, maps, default_split) ==
    IF stem \in DOMAIN maps.timg THEN maps.timg[stem]
    ELSE IF stem \in DOMAIN maps.tlbl THEN maps.tlbl[stem]
    ELSE default_split

NoMaps == [simg |-> <<>>, slbl |-> <<>>, timg |-> <<>>, tlbl |-> <<>>]

\* copy_missing up to its loop: load_source_files and map_stems_by_split.
\* iterdir lists the source images in the file system's order and the dict
\* keeps, of the images of one stem, the one listed last.
SyncStart ==
    /\ sy_pc = "start"
    /\ \E last \in LastListed(sy_src_imgs, StemOf(sy_src_imgs)) :
         /\ sy_maps' = [simg |-> LabelsDict(last),
                        slbl |-> sy_src_lbls,
                        timg |-> MapStemsBySplit(sy_target, "images"),
                        tlbl |-> MapStemsBySplit(sy_target, "labels")]
         /\ sy_todo' = SortedSeq(DOMAIN LabelsDict(last) \cup DOMAIN sy_src_lbls)
    /\ sy_added' = [imgs |-> 0, lbls |-> 0]
    /\ sy_pc' = "loop"
    /\ UNCHANGED <<sy_src_imgs, sy_src_lbls, sy_target, sy_dirs, sy_args, sy_run,
                   sy_before, sy_prev_added>>
    /\ UNCHANGED syncRest

\* one iteration of the loop of copy_missing
SyncStem ==
    /\ sy_pc = "loop"
    /\ sy_todo # <<>>
    /\ LET stem == Head(sy_todo)
           split == DestSplit(stem, sy_maps, sy_args.default_split)
           doImg == stem \notin DOMAIN sy_maps.timg /\ stem \in DOMAIN sy_maps.simg
           doLbl == stem \notin DOMAIN sy_maps.tlbl /\ stem \in DOMAIN sy_maps.slbl
           newImg == IF doImg /\ ~sy_args.dry_run
                     THEN {[kind |-> "images", split |-> split, stem |-> stem,
                            ext |-> sy_maps.simg[stem].ext,
                            body |-> <<"copy of", sy_maps.simg[stem]>>]}
                     ELSE {}
           newLbl == IF doLbl /\ ~sy_args.dry_run
                     THEN {[kind |-> "labels", split |-> split, stem |-> stem,
                            ext |-> "txt",
                            body |-> NormalizeLabel(sy_maps.slbl[stem], sy_args.angle)]}
                     ELSE {}
           new == newImg \cup newLbl
       IN  /\ sy_target' =
                {f \in sy_target :
                    ~\E g \in new : g.kind = f.kind /\ g.split = f.split
                                    /\ g.stem = f.stem /\ g.ext = f.ext}
                \cup new
           /\ sy_dirs' = sy_dirs \cup {<<g.kind, g.split>> : g \in new}
           /\ sy_added' = [imgs |-> sy_added.imgs + (IF doImg THEN 1 ELSE 0),
                           lbls |-> sy_added.lbls + (IF doLbl THEN 1 ELSE 0)]
    /\ sy_todo' = Tail(sy_todo)
    /\ UNCHANGED <<sy_src_imgs, sy_src_lbls, sy_args, sy_pc, sy_run, sy_maps,
                   sy_before, sy_prev_added>>
    /\ UNCHANGED syncRest

\* the two print calls that end copy_missing
SyncFinish ==
    /\ sy_pc = "loop"
    /\ sy_todo = <<>>
    /\ sy_pc' = "done"
    /\ UNCHANGED <<sy_src_imgs, sy_src_lbls, sy_target, sy_dirs, sy_args, sy_run,
                   sy_maps, sy_todo, sy_added, sy_before, sy_prev_added>>
    /\ UNCHANGED syncRest

\* the script is started again with the same directories and options
SyncAgain ==
    /\ sy_pc = "done"
    /\ sy_run = 1
    /\ sy_run' = 2
    /\ sy_pc' = "start"
    /\ sy_before' = [target |-> sy_target, dirs |-> sy_dirs]
    /\ sy_prev_added' = sy_added
    /\ sy_maps' = NoMaps
    /\ sy_added' = [imgs |-> 0, lbls |-> 0]
    /\ UNCHANGED <<sy_src_imgs, sy_src_lbls, sy_target, sy_dirs, sy_args, sy_todo>>
    /\ UNCHANGED syncRest

SyncStems == 1..MaxSyncStems

FlatFile(s, e) == [stem |-> s, ext |-> e, dir |-> "."]

\* a file the target held before the sync ran
OldFile(kind, split, s, e) ==
    [kind |-> kind, split |-> split, stem |-> s, ext |-> e, body |-> <<"old">>]

SyncRunIdle ==
    /\ sy_pc = "start"
    /\ sy_run = 1
    /\ sy_maps = NoMaps
    /\ sy_todo = <<>>
    /\ sy_added = [imgs |-> 0, lbls |-> 0]
    /\ sy_before = [target |-> sy_target, dirs |-> sy_dirs]
    /\ sy_prev_added = [imgs |-> 0, lbls |-> 0]

SyncIdle ==
    /\ sy_src_imgs = {}
    /\ sy_src_lbls = <<>>
    /\ sy_target = {}
    /\ sy_dirs = {}
    /\ sy_args = [default_split |-> "train", angle |-> "0.0", dry_run |-> FALSE]
    /\ SyncRunIdle

Angles == {"0.0", "1.57"}

SrcImageChoices(s) == {{}, {FlatFile(s, "jpg")}, {FlatFile(s, "jpg"), FlatFile(s, "png")}}
TgtImageChoices(s) ==
    {{}, {OldFile("images", "val", s, "jpg")},
     {OldFile("images", "train", s, "jpg"), OldFile("images", "test", s, "png")}}
TgtLabelChoices(s) ==
    {{}, {OldFile("labels", "test", s, "txt")},
     {OldFile("labels", "train", s, "txt"), OldFile("labels", "val", s, "txt")}}

SampleText == Text(<<Line("3", 5), <<>>, Line("3", 2)>>, TRUE)
-----------------------------------------------------------------------------
(* convert_label_indices.py *)

\* A raw line is [toks, tidy]: the fields str.split() gives and whether the
\* line is exactly " ".join(toks), that is, has no leading, trailing or doubled
\* white space (a blank line is tidy when it is the empty string).
Raw(toks, tidy) == [toks |-> toks, tidy |-> tidy]

\* the lines the normalizer can meet: blank ones and lines of one field fewer
\* than, exactly, and one field more than the five standard ones
NormLines ==
    {Raw(<<>>, t) : t \in BOOLEAN}
    \cup {Raw(Line(c, n), t) : c \in ClassTokens, n \in 4..6, t \in BOOLEAN}

\* a raw text is [lines, nl] like a text, with raw lines; a text that does not
\* end with a newline cannot end with an empty line
RawTexts(maxLines) ==
    {x \in {Text(l, nl) : l \in UNION {[1..k -> NormLines] : k \in 0..maxLines},
                          nl \in BOOLEAN} :
        /\ x.lines = <<>> => ~x.nl
        /\ (x.lines # <<>> /\ ~x.nl) => x.lines[Len(x.lines)] # Raw(<<>>, TRUE)}

\* one iteration of rewrite_file's loop that notes a class token other than "0"
\* without replacing it
RewriteLineNoAssign(line) ==
    IF line.toks = <<>> THEN [line |-> line, changed |-> FALSE]
    ELSE LET cut == IF Len(line.toks) > 5 THEN SubSeq(line.toks, 1, 5) ELSE line.toks
         IN  [line |-> Raw(cut, TRUE),
              changed |-> line.toks[1] # "0" \/ Len(line.toks) > 5]

\* one iteration of rewrite_file's loop: the updated line and whether it set `changed`
RewriteLine(line) ==
    IF line.toks = <<>> THEN [line |-> line, changed |-> FALSE]
    ELSE LET zero == IF line.toks[1] # "0" THEN [line.toks EXCEPT ![1] = "0"] ELSE line.toks
             cut == IF Len(zero) > 5 THEN SubSeq(zero, 1, 5) ELSE zero
         IN  [line |-> Raw(cut, TRUE),
              changed |-> line.toks[1] # "0" \/ Len(zero) > 5]

\* rewrite_file's return value
RewriteChanged(text) == \E i \in 1..Len(text.lines) : RewriteLine(text.lines[i]).changed

\* new_text of rewrite_file
RewriteText(text) ==
    Text([i \in 1..Len(text.lines) |-> RewriteLine(text.lines[i]).line], text.nl)

\* main up to its loop: sorted(labels_dir.rglob("*.txt"))
NormStart ==
    /\ nm_pc = "start"
    /\ IF nm_files = <<>>
       THEN nm_pc' = "error"
       ELSE nm_pc' = "loop"
    /\ nm_i' = 1
    /\ nm_changed' = {}
    /\ nm_written' = {}
    /\ nm_printed' = <<>>
    /\ UNCHANGED <<nm_files, nm_dry, nm_run, nm_prev>>
    /\ UNCHANGED normRest

\* one iteration of main's loop with a rewrite_file that writes whenever a
\* line changed
NormFileAlwaysWrites ==
    /\ nm_pc = "loop"
    /\ nm_i <= Len(nm_files)
    /\ LET text == nm_files[nm_i]
           changed == RewriteChanged(text)
       IN  /\ nm_files' = IF changed
                          THEN [nm_files EXCEPT ![nm_i] = RewriteText(text)]
                          ELSE nm_files
           /\ nm_written' = IF changed THEN nm_written \cup {nm_i} ELSE nm_written
           /\ nm_changed' = IF changed THEN nm_changed \cup {nm_i} ELSE nm_changed
           /\ nm_printed' = IF changed /\ nm_dry
                            THEN Append(nm_printed, <<"Would update", nm_i>>)
                            ELSE nm_printed
    /\ nm_i' = nm_i + 1
    /\ UNCHANGED <<nm_dry, nm_pc, nm_run, nm_prev>>
    /\ UNCHANGED normRest

\* one iteration of main's loop: rewrite_file(path, args.dry_run)
NormFile ==
    /\ nm_pc = "loop"
    /\ nm_i <= Len(nm_files)
    /\ LET text == nm_files[nm_i]
           changed == RewriteChanged(text)
       IN  /\ nm_files' = IF changed /\ ~nm_dry
                          THEN [nm_files EXCEPT ![nm_i] = RewriteText(text)]
                          ELSE nm_files
           /\ nm_written' = IF changed /\ ~nm_dry THEN nm_written \cup {nm_i} ELSE nm_written
           /\ nm_changed' = IF changed THEN nm_changed \cup {nm_i} ELSE nm_changed
           /\ nm_printed' = IF changed /\ nm_dry
                            THEN Append(nm_printed, <<"Would update", nm_i>>)
                            ELSE nm_printed
    /\ nm_i' = nm_i + 1
    /\ UNCHANGED <<nm_dry, nm_pc, nm_run, nm_prev>>
    /\ UNCHANGED normRest

\* the print that ends main
NormFinish ==
    /\ nm_pc = "loop"
    /\ nm_i > Len(nm_files)
    /\ nm_pc' = "done"
    /\ nm_printed' = Append(nm_printed,
                            <<Cardinality(nm_changed), "label files",
                              IF nm_dry THEN "would be" ELSE "were", "updated">>)
    /\ UNCHANGED <<nm_files, nm_dry, nm_i, nm_run, nm_changed, nm_written, nm_prev>>
    /\ UNCHANGED normRest

\* the script is started again on the same tree with the same options
NormAgain ==
    /\ nm_pc = "done"
    /\ nm_run = 1
    /\ nm_run' = 2
    /\ nm_pc' = "start"
    /\ nm_prev' = [changed |-> nm_changed, written |-> nm_written, files |-> nm_files]
    /\ UNCHANGED <<nm_files, nm_dry, nm_i, nm_changed, nm_written, nm_printed>>
    /\ UNCHANGED normRest

\* after a dry run, the script is started again on the same tree without
\* --dry-run
NormForReal ==
    /\ nm_pc = "done"
    /\ nm_run = 1
    /\ nm_dry
    /\ nm_run' = 2
    /\ nm_dry' = FALSE
    /\ nm_pc' = "start"
    /\ nm_prev' = [changed |-> nm_changed, written |-> nm_written, files |-> nm_files,
                   printed |-> nm_printed]
    /\ UNCHANGED <<nm_files, nm_i, nm_changed, nm_written, nm_printed>>
    /\ UNCHANGED normRest

NormRunIdle ==
    /\ nm_pc = "start"
    /\ nm_i = 1
    /\ nm_run = 1
    /\ nm_changed = {}
    /\ nm_written = {}
    /\ nm_printed = <<>>
    /\ nm_prev = [changed |-> {}, written |-> {}, files |-> <<>>]

NormIdle ==
    /\ nm_files = <<>>
    /\ nm_dry = FALSE
    /\ NormRunIdle

\* the trees of at most MaxNormFiles files that hold at most MaxLines lines in all
RECURSIVE NormTrees(_, _)
NormTrees(files, lines) ==
    IF files = 0 THEN {<<>>}
    ELSE {<<>>} \cup
         UNION {{<<t>> \o rest : rest \in NormTrees(files - 1, lines - Len(t.lines)) \ {<<>>}}
                \cup {<<t>>} :
                  t \in RawTexts(lines)}

-----------------------------------------------------------------------------
(* check_dataset_counts.py *)

\* image_exts, without the dot
AuditImageExts == {"jpg", "jpeg", "png", "bmp"}

\* str.lower() on the extensions the model uses
Lower(ext) == IF ext = "JPG" THEN "jpg" ELSE ext

AuditFile(kind, split, stem, ext) ==
    [kind |-> kind, split |-> split, stem |-> stem, ext |-> ext]

\* lbl.name and img.name
AuditName(f) == <<f.stem, f.ext>>

\* lbl_dir.glob("*.txt") over the labels of every split
LabelsInAnySplit(split) == {f \in au_files : f.kind = "labels" /\ f.ext = "txt"}

\* lbl_dir.glob("*.txt")
LabelsIn(split) ==
    {f \in au_files : f.kind = "labels" /\ f.split = split /\ f.ext = "txt"}

\* [p for p in img_dir.glob("*") if p.suffix.lower() in image_exts]
ImagesIn(split) ==
    {f \in au_files : f.kind = "images" /\ f.split = split /\ Lower(f.ext) \in AuditImageExts}

\* (img_dir / f"{stem}{ext}").exists()
Exists(split, stem, ext) ==
    \E f \in au_files :
        /\ f.kind = "images" /\ f.split = split /\ f.stem = stem
        /\ IF au_case THEN f.ext = ext ELSE Lower(f.ext) = Lower(ext)

\* the names of the entries of seq that satisfy keep, in the order of seq
RECURSIVE NamesWhere(_, _)
NamesWhere(seq, keep) ==
    IF seq = <<>> THEN <<>>
    ELSE (IF seq[1] \in keep THEN <<AuditName(seq[1])>> ELSE <<>>)
         \o NamesWhere(Tail(seq), keep)

\* what one iteration prints, the labels and images listed in the given orders
AuditReport(split, lbls, imgs) ==
    LET missing_img == NamesWhere(lbls, {l \in Range(lbls) :
                           ~\E ext \in AuditImageExts : Exists(split, l.stem, ext)})
        lbl_stems == {l.stem : l \in Range(lbls)}
        missing_lbl == NamesWhere(imgs, {g \in Range(imgs) : g.stem \notin lbl_stems})
    IN  [split |-> split,
         imgs |-> Len(imgs),
         labels |-> Len(lbls),
         missing_img |-> missing_img,
         missing_lbl |-> missing_lbl,
         shown_img |-> PySlice(missing_img, 0, au_limit),
         shown_lbl |-> PySlice(missing_lbl, 0, au_limit)]

\* one iteration of main's loop, --check-format and --inspect-cache not given
AuditSplit ==
    /\ au_pc = "loop"
    /\ au_i <= Len(au_splits)
    /\ \E lbls \in Perms(LabelsIn(au_splits[au_i])), imgs \in Perms(ImagesIn(au_splits[au_i])) :
           au_reports' = Append(au_reports, AuditReport(au_splits[au_i], lbls, imgs))
    /\ au_i' = au_i + 1
    /\ UNCHANGED <<au_files, au_case, au_splits, au_limit, au_pc>>
    /\ UNCHANGED auditRest

\* the loop is over and main returns
AuditFinish ==
    /\ au_pc = "loop"
    /\ au_i > Len(au_splits)
    /\ au_pc' = "done"
    /\ UNCHANGED <<au_files, au_case, au_splits, au_limit, au_i, au_reports>>
    /\ UNCHANGED auditRest

AuditRunIdle ==
    /\ au_pc = "loop"
    /\ au_i = 1
    /\ au_reports = <<>>

AuditIdle ==
    /\ au_files = {}
    /\ au_case = TRUE
    /\ au_splits = <<"train">>
    /\ au_limit = 5
    /\ AuditRunIdle

AuditSplitNames == {"train", "val"}
AuditStems == 1..MaxAuditStems
AuditLimits == {0, 5}

\* what a split can hold for one stem: a label or none, and no image, an
\* image or an image whose extension is in upper case
AuditStemChoices(split, stem) ==
    {l \cup g :
        l \in {{}, {AuditFile("labels", split, stem, "txt")}},
        g \in {{}, {AuditFile("images", split, stem, "jpg")},
               {AuditFile("images", split, stem, "JPG")}}}

AuditTrees ==
    {UNION {c[k] : k \in AuditSplitNames \X AuditStems} :
        c \in {d \in [AuditSplitNames \X AuditStems ->
                        UNION {AuditStemChoices(k[1], k[2]) : k \in AuditSplitNames \X AuditStems}] :
                 \A k \in AuditSplitNames \X AuditStems : d[k] \in AuditStemChoices(k[1], k[2])}}

-----------------------------------------------------------------------------
(* convert_yolo_bbox_to_polygon.py *)

\* A token is the sequence of its characters.
DigitChars == <<"0", "1", "2", "3", "4", "5", "6", "7", "8", "9">>

IsDigit(c) == \E i \in 1..10 : DigitChars[i] = c

DigitVal(c) == (CHOOSE i \in 1..10 : DigitChars[i] = c) - 1

\* c * n for a one-character string c
Rep(c, n) == [i \in 1..n |-> c]

\* A Decimal is NaN or a signed number; a number is written in fixed point,
\* dig[i] being the digit of weight 10^(IntDigits - i). Only the value is
\* kept, not the exponent, so 0.50 and 0.5 are the same Decimal here.
DecWidth == IntDigits + FracDigits

Zeros == [i \in 1..DecWidth |-> 0]

NaN == [nan |-> TRUE, neg |-> FALSE, dig |-> Zeros]

Num(neg, dig) == [nan |-> FALSE, neg |-> neg /\ dig # Zeros, dig |-> dig]

\* Decimal(tok) for tokens without exponent part: ok is FALSE where Decimal
\* raises InvalidOperation
DecimalParse(tok) ==
    LET signed == tok # <<>> /\ tok[1] \in {"+", "-"}
        body == IF signed THEN Tail(tok) ELSE tok
        dots == {i \in 1..Len(body) : body[i] = "."}
        dot == IF dots = {} THEN Len(body) + 1 ELSE CHOOSE i \in dots : TRUE
        int == SubSeq(body, 1, dot - 1)
        frac == SubSeq(body, dot + 1, Len(body))
        ok == /\ Cardinality(dots) <= 1
              /\ Len(int) + Len(frac) >= 1
              /\ \A i \in 1..Len(int) : IsDigit(int[i])
              /\ \A i \in 1..Len(frac) : IsDigit(frac[i])
    IN  IF body \in {<<"N", "a", "N">>, <<"n", "a", "n">>}
        THEN [ok |-> TRUE, val |-> NaN]
        ELSE IF ~ok THEN [ok |-> FALSE, val |-> NaN]
        ELSE [ok |-> TRUE,
              val |-> Num(signed /\ tok[1] = "-",
                          [i \in 1..DecWidth |->
                              IF i <= IntDigits
                              THEN IF i - (IntDigits - Len(int)) >= 1
                                   THEN DigitVal(int[i - (IntDigits - Len(int))])
                                   ELSE 0
                              ELSE IF i - IntDigits <= Len(frac)
                                   THEN DigitVal(frac[i - IntDigits])
                                   ELSE 0])]

\* the digits 1..i of a + b, carry coming in at digit i
RECURSIVE AddDigits(_, _, _, _)
AddDigits(a, b, i, carry) ==
    IF i = 0 THEN <<>>
    ELSE LET t == a[i] + b[i] + carry
         IN  Append(AddDigits(a, b, i - 1, t \div 10), t % 10)

\* the digits 1..i of a - b for a >= b, borrow coming in at digit i
RECURSIVE SubDigits(_, _, _, _)
SubDigits(a, b, i, borrow) ==
    IF i = 0 THEN <<>>
    ELSE LET t == a[i] - b[i] - borrow
         IN  Append(SubDigits(a, b, i - 1, IF t < 0 THEN 1 ELSE 0),
                    IF t < 0 THEN t + 10 ELSE t)

\* the digits i..DecWidth of a / 2, rem being the remainder of the digits before
RECURSIVE HalveDigits(_, _, _)
HalveDigits(a, i, rem) ==
    IF i > DecWidth THEN <<>>
    ELSE LET t == rem * 10 + a[i]
         IN  <<t \div 2>> \o HalveDigits(a, i + 1, t % 2)

LessDigits(a, b) ==
    \E i \in 1..DecWidth : a[i] < b[i] /\ \A j \in 1..(i - 1) : a[j] = b[j]

Negate(x) == Num(~x.neg, x.dig)

\* x + y, x / 2 of two numbers, before the context rounds it
ExactAdd(x, y) ==
    IF x.neg = y.neg THEN Num(x.neg, AddDigits(x.dig, y.dig, DecWidth, 0))
    ELSE IF LessDigits(x.dig, y.dig) THEN Num(y.neg, SubDigits(y.dig, x.dig, DecWidth, 0))
    ELSE Num(x.neg, SubDigits(x.dig, y.dig, DecWidth, 0))

ExactHalf(x) == Num(x.neg, HalveDigits(x.dig, 1, 0))

\* the context's rounding: Prec significant digits, ROUND_HALF_EVEN
RoundDec(x) ==
    LET nz == {i \in 1..DecWidth : x.dig[i] # 0}
    IN  IF nz = {} THEN x
        ELSE LET q == (CHOOSE i \in nz : \A j \in nz : i <= j) + Prec - 1
             IN  IF q >= DecWidth THEN x
                 ELSE LET kept == [i \in 1..DecWidth |-> IF i <= q THEN x.dig[i] ELSE 0]
                          unit == [i \in 1..DecWidth |-> IF i = q THEN 1 ELSE 0]
                          first == x.dig[q + 1]
                          tail == \E i \in (q + 2)..DecWidth : x.dig[i] # 0
                          up == first > 5 \/ (first = 5 /\ (tail \/ x.dig[q] % 2 = 1))
                      IN  Num(x.neg, IF up THEN AddDigits(kept, unit, DecWidth, 0) ELSE kept)

\* Decimal.__add__, __sub__ and __truediv__ by Decimal(2)
DecAdd(x, y) == IF x.nan \/ y.nan THEN NaN ELSE RoundDec(ExactAdd(x, y))

DecSub(x, y) == IF x.nan \/ y.nan THEN NaN ELSE RoundDec(ExactAdd(x, Negate(y)))

DivideByTwo(x) == IF x.nan THEN NaN ELSE RoundDec(ExactHalf(x))

\* parse_line: ok is FALSE where it raises ValueError
ParseLine(parts) ==
    LET x_center == DecimalParse(parts[2])
        y_center == DecimalParse(parts[3])
        width == DecimalParse(parts[4])
        height == DecimalParse(parts[5])
    IN  [ok |-> x_center.ok /\ y_center.ok /\ width.ok /\ height.ok,
         label |-> parts[1],
         x_center |-> x_center.val, y_center |-> y_center.val,
         width |-> width.val, height |-> height.val]

\* to_polygon that takes the whole width for the half
ToPolygonWholeWidth(label, x_center, y_center, width, height) ==
    LET half_h == DivideByTwo(height)
        x_min == DecSub(x_center, width)
        x_max == DecAdd(x_center, width)
        y_min == DecSub(y_center, half_h)
        y_max == DecAdd(y_center, half_h)
    IN  [label |-> label,
         coords |-> <<x_min, x_max, x_max, x_min, y_min, y_min, y_max, y_max>>]

\* to_polygon; the line is kept as its label and its eight Decimals, which
\* str() writes without loss
ToPolygon(label, x_center, y_center, width, height) ==
    LET half_w == DivideByTwo(width)
        half_h == DivideByTwo(height)
        x_min == DecSub(x_center, half_w)
        x_max == DecAdd(x_center, half_w)
        y_min == DecSub(y_center, half_h)
        y_max == DecAdd(y_center, half_h)
    IN  [label |-> label,
         coords |-> <<x_min, x_max, x_max, x_min, y_min, y_min, y_max, y_max>>]

\* main up to its loop
PolyStart ==
    /\ pg_pc = "start"
    /\ IF ~pg_dir THEN pg_pc' = "FileNotFoundError"
       ELSE IF pg_files = <<>> THEN pg_pc' = "done"
       ELSE pg_pc' = "file"
    /\ UNCHANGED <<pg_dir, pg_files, pg_f, pg_l, pg_lines, pg_origin, pg_warn, pg_dest>>
    /\ UNCHANGED polyRest

\* one iteration of convert_file's loop
PolyLine ==
    /\ pg_pc = "file"
    /\ pg_l <= Len(pg_files[pg_f])
    /\ LET parts == pg_files[pg_f][pg_l]
           p == ParseLine(parts)
       IN  IF parts = <<>>
           THEN UNCHANGED <<pg_lines, pg_origin, pg_warn>>
           ELSE IF Len(parts) # 5
           THEN /\ pg_warn' = Append(pg_warn, <<pg_f, pg_l, "colunas", Len(parts)>>)
                /\ UNCHANGED <<pg_lines, pg_origin>>
           ELSE IF ~p.ok
           THEN /\ pg_warn' = Append(pg_warn, <<pg_f, pg_l, "ValueError", 5>>)
                /\ UNCHANGED <<pg_lines, pg_origin>>
           ELSE /\ pg_lines' = Append(pg_lines,
                                      ToPolygon(p.label, p.x_center, p.y_center, p.width, p.height))
                /\ pg_origin' = Append(pg_origin, pg_l)
                /\ UNCHANGED pg_warn
    /\ pg_l' = pg_l + 1
    /\ UNCHANGED <<pg_dir, pg_files, pg_pc, pg_f, pg_dest>>
    /\ UNCHANGED polyRest

\* destination.write_text at the end of convert_file, and main's next step
PolyWrite ==
    /\ pg_pc = "file"
    /\ pg_l > Len(pg_files[pg_f])
    /\ pg_dest' = Append(pg_dest, Text(pg_lines, pg_lines # <<>>))
    /\ pg_lines' = <<>>
    /\ pg_origin' = <<>>
    /\ IF pg_f < Len(pg_files)
       THEN /\ pg_f' = pg_f + 1
            /\ pg_l' = 1
            /\ UNCHANGED pg_pc
       ELSE /\ pg_pc' = "done"
            /\ UNCHANGED <<pg_f, pg_l>>
    /\ UNCHANGED <<pg_dir, pg_files, pg_warn>>
    /\ UNCHANGED polyRest

PolyRunIdle ==
    /\ pg_pc = "start"
    /\ pg_f = 1
    /\ pg_l = 1
    /\ pg_lines = <<>>
    /\ pg_origin = <<>>
    /\ pg_warn = <<>>
    /\ pg_dest = <<>>

PolyIdle ==
    /\ pg_dir = FALSE
    /\ pg_files = <<>>
    /\ PolyRunIdle

\* The fields the model draws. Numbers have at most IntDigits digits before
\* the point and fewer than FracDigits after it, so that DecimalParse and
\* ExactHalf lose nothing.
LabelTokens == {<<"0">>, <<"m", "o", "t", "o">>}

Tiny == <<"0", ".">> \o Rep("0", 28) \o <<"2">>

CenterTokens ==
    {<<"0", ".", "5">>,
     <<"-", ".", "2", "5">>,
     <<"0", ".", "4">> \o Rep("9", 28)}

WidthTokens ==
    {<<"0", ".", "2">>,
     <<"1", ".", "5">>,
     Tiny,
     <<"0", ".", "3">> \o Rep("0", 26) \o <<"1">>,
     <<"N", "a", "N">>,
     <<"a", "b", "c">>}

HeightTokens == {<<"0", ".", "1">>, Tiny}

PolyLines ==
    {<<>>,
     <<<<"0">>, <<"0", ".", "5">>, <<"0", ".", "5">>, <<"0", ".", "2">>>>,
     <<<<"0">>, <<"0", ".", "5">>, <<"0", ".", "5">>, <<"0", ".", "2">>, <<"0", ".", "1">>, <<"0">>>>}
    \cup {<<c, x, <<"0", ".", "5">>, w, h>> :
            c \in LabelTokens, x \in CenterTokens, w \in WidthTokens, h \in HeightTokens}

RECURSIVE PolyTrees(_, _)
PolyTrees(files, lines) ==
    IF files = 0 THEN {<<>>}
    ELSE {<<>>} \cup
         UNION {{<<t>> \o rest : rest \in PolyTrees(files - 1, lines - Len(t)) \ {<<>>}}
                \cup {<<t>>} :
                  t \in UNION {[1..k -> PolyLines] : k \in 0..lines}}

-----------------------------------------------------------------------------
(* convert_obb_labels_to_corners.py: floats *)

\* A float is nan or a signed number, zero included. The magnitude is written
\* in fixed point in base 10^4: limbs[i] is the group of four decimal digits
\* of weight 10^(4 * (FloatIntLimbs - i)). Every float between
\* 2^-(4 * FloatFracLimbs - FloatBits) and 2^FloatBits is written exactly.
LimbBase == 10 * 10 * 10 * 10

FloatWidth == FloatIntLimbs + FloatFracLimbs

FZeros == [i \in 1..FloatWidth |-> 0]

FOne == [i \in 1..FloatWidth |-> IF i = FloatIntLimbs THEN 1 ELSE 0]

FNaN == [nan |-> TRUE, neg |-> FALSE, dig |-> FZeros]

FNum(neg, dig) == [nan |-> FALSE, neg |-> neg, dig |-> dig]

\* the limbs 1..i of a * m, for m up to 2^16, carry coming in at limb i
RECURSIVE MulLimbs(_, _, _, _)
MulLimbs(a, m, i, carry) ==
    IF i = 0 THEN <<>>
    ELSE LET t == a[i] * m + carry
         IN  Append(MulLimbs(a, m, i - 1, t \div LimbBase), t % LimbBase)

\* the limbs i..FloatWidth of a / m, for m up to 2^16, rem being the
\* remainder of the limbs before
RECURSIVE DivLimbs(_, _, _, _)
DivLimbs(a, m, i, rem) ==
    IF i > FloatWidth THEN <<>>
    ELSE LET t == rem * LimbBase + a[i]
         IN  <<t \div m>> \o DivLimbs(a, m, i + 1, t % m)

\* the limbs 1..i of a + b and, for a >= b, of a - b
RECURSIVE AddLimbs(_, _, _, _)
AddLimbs(a, b, i, carry) ==
    IF i = 0 THEN <<>>
    ELSE LET t == a[i] + b[i] + carry
         IN  Append(AddLimbs(a, b, i - 1, t \div LimbBase), t % LimbBase)

RECURSIVE SubLimbs(_, _, _, _)
SubLimbs(a, b, i, borrow) ==
    IF i = 0 THEN <<>>
    ELSE LET t == a[i] - b[i] - borrow
         IN  Append(SubLimbs(a, b, i - 1, IF t < 0 THEN 1 ELSE 0),
                    IF t < 0 THEN t + LimbBase ELSE t)

Times(a, m) ==
    CHOOSE r \in {IF x = FZeros THEN x ELSE MulLimbs(x, m, FloatWidth, 0) : x \in {a}} : TRUE

Over(a, m) ==
    CHOOSE r \in {IF x = FZeros THEN x ELSE DivLimbs(x, m, 1, 0) : x \in {a}} : TRUE

LessLimbs(a, b) ==
    \E i \in 1..FloatWidth : a[i] < b[i] /\ \A j \in 1..(i - 1) : a[j] = b[j]

\* 2^n and 10^n as numbers, 2^n as limbs
RECURSIVE Pow2(_)
Pow2(n) == IF n = 0 THEN 1 ELSE 2 * Pow2(n - 1)

RECURSIVE Pow10(_)
Pow10(n) == IF n = 0 THEN 1 ELSE 10 * Pow10(n - 1)

RECURSIVE TwoTo(_)
TwoTo(n) == IF n <= 16 THEN Times(FOne, Pow2(n)) ELSE Times(TwoTo(n - 16), Pow2(16))

\* the least significand of FloatBits bits, and 2^-16, 2^-4 of it
MinSignificand == TwoTo(FloatBits - 1)

MinSignificand4 == TwoTo(FloatBits - 5)

MinSignificand16 == TwoTo(FloatBits - 17)

\* a * 2^n for the least n that makes it a significand, and that n; the
\* doublings are taken 16 or 4 at once where that does not overshoot
RECURSIVE ScaleUp(_, _)
ScaleUp(a, n) ==
    CHOOSE r \in
        {IF ~LessLimbs(x, MinSignificand) THEN [dig |-> x, n |-> k]
         ELSE IF LessLimbs(x, MinSignificand16) THEN ScaleUp(Times(x, Pow2(16)), k + 16)
         ELSE IF LessLimbs(x, MinSignificand4) THEN ScaleUp(Times(x, Pow2(4)), k + 4)
         ELSE ScaleUp(Times(x, 2), k + 1) : x \in {a}, k \in {n}} : TRUE

\* a / 2^n
RECURSIVE ScaleDown(_, _)
ScaleDown(a, n) ==
    CHOOSE r \in
        {IF k = 0 \/ x = FZeros THEN x
         ELSE IF k >= 16 THEN ScaleDown(Over(x, Pow2(16)), k - 16)
         ELSE Over(x, Pow2(k)) : x \in {a}, k \in {n}} : TRUE

\* a rounded to keep limbs after the point, ties to even
RoundLimbs(a, keep) ==
    CHOOSE r \in
        {LET q == FloatIntLimbs + keep
             kept == [i \in 1..FloatWidth |-> IF i <= q THEN x[i] ELSE 0]
             unit == [i \in 1..FloatWidth |-> IF i = q THEN 1 ELSE 0]
             tail == \E i \in (q + 2)..FloatWidth : x[i] # 0
             up == \/ x[q + 1] * 2 > LimbBase
                   \/ (x[q + 1] * 2 = LimbBase /\ (tail \/ x[q] % 2 = 1))
         IN  IF up THEN AddLimbs(kept, unit, FloatWidth, 0) ELSE kept \o <<>> :
         x \in {a}} : TRUE

\* the magnitude of the float nearest to a magnitude below 2^(FloatBits - 1),
\* ties to even
RoundToFloat(a) ==
    CHOOSE r \in
        {IF x = FZeros THEN x
         ELSE CHOOSE d \in {ScaleDown(RoundLimbs(s.dig, 0), s.n) : s \in {ScaleUp(x, 0)}} : TRUE :
         x \in {a}} : TRUE

\* the limbs of the number written with the digits int before the point and
\* frac after it
LimbsOf(int, frac) ==
    CHOOSE r \in
        {LET digit(p) ==
                 IF p <= 4 * FloatIntLimbs
                 THEN IF p - (4 * FloatIntLimbs - Len(whole)) >= 1
                      THEN DigitVal(whole[p - (4 * FloatIntLimbs - Len(whole))])
                      ELSE 0
                 ELSE IF p - 4 * FloatIntLimbs <= Len(part)
                      THEN DigitVal(part[p - 4 * FloatIntLimbs])
                      ELSE 0
         IN  [i \in 1..FloatWidth |->
                 1000 * digit(4 * i - 3) + 100 * digit(4 * i - 2)
                 + 10 * digit(4 * i - 1) + digit(4 * i)] \o <<>> :
         whole \in {int}, part \in {frac}} : TRUE

\* float(tok) for tokens without exponent part: ok is FALSE where float
\* raises ValueError
FloatParse(tok) ==
    LET signed == tok # <<>> /\ tok[1] \in {"+", "-"}
        body == IF signed THEN Tail(tok) ELSE tok
        dots == {i \in 1..Len(body) : body[i] = "."}
        dot == IF dots = {} THEN Len(body) + 1 ELSE CHOOSE i \in dots : TRUE
        int == SubSeq(body, 1, dot - 1)
        frac == SubSeq(body, dot + 1, Len(body))
        ok == /\ Cardinality(dots) <= 1
              /\ Len(int) + Len(frac) >= 1
              /\ \A i \in 1..Len(int) : IsDigit(int[i])
              /\ \A i \in 1..Len(frac) : IsDigit(frac[i])
    IN  IF body \in {<<"N", "a", "N">>, <<"n", "a", "n">>}
        THEN [ok |-> TRUE, val |-> FNaN]
        ELSE IF ~ok THEN [ok |-> FALSE, val |-> FNaN]
        ELSE [ok |-> TRUE,
              val |-> FNum(signed /\ tok[1] = "-", RoundToFloat(LimbsOf(int, frac)))]

\* -x
FloatNeg(x) == [x EXCEPT !.neg = ~x.neg]

\* x + y and x - y
FloatAdd(x, y) ==
    CHOOSE r \in
        {IF a.nan \/ b.nan THEN FNaN
         ELSE IF a.dig = FZeros /\ b.dig = FZeros THEN FNum(a.neg /\ b.neg, FZeros)
         ELSE IF b.dig = FZeros THEN a
         ELSE IF a.dig = FZeros THEN b
         ELSE IF a.neg = b.neg
         THEN FNum(a.neg, RoundToFloat(AddLimbs(a.dig, b.dig, FloatWidth, 0)))
         ELSE IF a.dig = b.dig THEN FNum(FALSE, FZeros)
         ELSE IF LessLimbs(a.dig, b.dig)
         THEN FNum(b.neg, RoundToFloat(SubLimbs(b.dig, a.dig, FloatWidth, 0)))
         ELSE FNum(a.neg, RoundToFloat(SubLimbs(a.dig, b.dig, FloatWidth, 0))) :
         a \in {x}, b \in {y}} : TRUE

FloatSub(x, y) == FloatAdd(x, FloatNeg(y))

\* x / 2.0
FloatHalf(x) ==
    CHOOSE r \in {IF a.nan THEN FNaN ELSE FNum(a.neg, Over(a.dig, 2)) : a \in {x}} : TRUE

\* x * y for y one of 1.0, 0.0 and -0.0
FloatTimesUnit(x, y) ==
    CHOOSE r \in
        {IF a.nan \/ b.nan THEN FNaN
         ELSE FNum(a.neg # b.neg, IF b.dig = FZeros THEN FZeros ELSE a.dig) :
         a \in {x}, b \in {y}} : TRUE

\* format_float: f"{value:.15f}" without the zeros and the point it ends with
FormatFloat(value) ==
    CHOOSE text \in
        {IF v.nan THEN <<"n", "a", "n">>
         ELSE CHOOSE t \in
             {LET count == 4 * FloatIntLimbs + 4 * (FormatDecimals \div 4)
                  digit(p) == (r[(p + 3) \div 4] \div
                                 (IF p % 4 = 1 THEN 1000 ELSE IF p % 4 = 2 THEN 100
                                  ELSE IF p % 4 = 3 THEN 10 ELSE 1)) % 10
                  ints == count - FormatDecimals
                  intNz == {i \in 1..ints : digit(i) # 0}
                  from == IF intNz = {} THEN ints
                          ELSE CHOOSE i \in intNz : \A j \in intNz : i <= j
                  fracNz == {i \in 1..FormatDecimals : digit(ints + i) # 0}
                  upto == IF fracNz = {} THEN 0
                          ELSE CHOOSE i \in fracNz : \A j \in fracNz : i >= j
              IN  (IF v.neg THEN <<"-">> ELSE <<>>)
                  \o [i \in 1..(ints - from + 1) |-> DigitChars[digit(from + i - 1) + 1]]
                  \o (IF upto = 0 THEN <<>>
                      ELSE <<".">> \o [i \in 1..upto |-> DigitChars[digit(ints + i) + 1]]) :
              r \in {RoundLimbs(Times(v.dig, Pow10(FormatDecimals % 4)),
                                FormatDecimals \div 4)}} : TRUE :
         v \in {value}} : TRUE

-----------------------------------------------------------------------------
(* convert_obb_labels_to_corners.py: the converter *)

\* A line of a label file is [toks, space]: its fields, each the sequence of
\* its characters, and where it has white space besides one blank between
\* fields: nowhere ("tidy"), at its ends only ("ends"), or between fields
\* ("inside"). A blank line has no fields.
ObbLine(toks, space) == [toks |-> toks, space |-> space]

\* math.radians(angle) and the angle itself are zero together; the sign is kept
IsZeroAngle(angle) == ~angle.nan /\ angle.dig = FZeros

\* the name that stands for a corner coordinate of a box turned by an angle
\* other than zero: math.cos and math.sin are not computed
Turned(axis, k) == <<"r", "o", "t", axis, DigitChars[k + 1]>>

\* rotate_points that lists the corners from the last to the first
RotatePointsBackwards(cx, cy, w, h, angle_rad) ==
    CHOOSE corners \in
        {<<<<FloatSub(x, half_w), FloatAdd(y, half_h)>>,
           <<FloatAdd(x, half_w), FloatAdd(y, half_h)>>,
           <<FloatAdd(x, half_w), FloatSub(y, half_h)>>,
           <<FloatSub(x, half_w), FloatSub(y, half_h)>>>> :
         x \in {cx}, y \in {cy}, half_w \in {FloatHalf(w)}, half_h \in {FloatHalf(h)}} : TRUE

\* rotate_points for an angle of 0.0 or -0.0: cos_a is 1.0 and sin_a the angle
RotatePoints(cx, cy, w, h, angle_rad) ==
    CHOOSE corners \in
        {LET rel_points == <<<<FloatNeg(half_w), FloatNeg(half_h)>>,
                             <<half_w, FloatNeg(half_h)>>,
                             <<half_w, half_h>>,
                             <<FloatNeg(half_w), half_h>>>>
         IN  [k \in 1..4 |->
                 LET px == rel_points[k][1]
                     py == rel_points[k][2]
                     rx == FloatSub(FloatTimesUnit(px, cos_a), FloatTimesUnit(py, sin_a))
                     ry == FloatAdd(FloatTimesUnit(px, sin_a), FloatTimesUnit(py, cos_a))
                 IN  <<FloatAdd(x, rx), FloatAdd(y, ry)>>] \o <<>> :
         x \in {cx}, y \in {cy}, half_w \in {FloatHalf(w)}, half_h \in {FloatHalf(h)},
         cos_a \in {FNum(FALSE, FOne)}, sin_a \in {angle_rad}} : TRUE

\* convert_line from line 101: the fields of the string it returns
Flattened(cls, corners, order) ==
    IF order = "grouped"
    THEN <<cls>> \o [k \in 1..4 |-> FormatFloat(corners[k][1])]
                 \o [k \in 1..4 |-> FormatFloat(corners[k][2])]
    ELSE <<cls, FormatFloat(corners[1][1]), FormatFloat(corners[1][2]),
           FormatFloat(corners[2][1]), FormatFloat(corners[2][2]),
           FormatFloat(corners[3][1]), FormatFloat(corners[3][2]),
           FormatFloat(corners[4][1]), FormatFloat(corners[4][2])>>

\* the same for a box turned by an angle other than zero
FlattenedTurned(cls, order) ==
    IF order = "grouped"
    THEN <<cls>> \o [k \in 1..4 |-> Turned("x", k)] \o [k \in 1..4 |-> Turned("y", k)]
    ELSE <<cls, Turned("x", 1), Turned("y", 1), Turned("x", 2), Turned("y", 2),
           Turned("x", 3), Turned("y", 3), Turned("x", 4), Turned("y", 4)>>

\* convert_line from line 88, cx, cy, w, h and angle being what float() gave
\* or raised
ConvertParsed(cls, cx, cy, w, h, angle, order) ==
    IF ~(cx.ok /\ cy.ok /\ w.ok /\ h.ok /\ angle.ok) THEN [ok |-> FALSE, parts |-> <<>>]
    ELSE IF ~IsZeroAngle(angle.val) THEN [ok |-> TRUE, parts |-> FlattenedTurned(cls, order)]
    ELSE [ok |-> TRUE,
          parts |-> CHOOSE flattened \in
                        {Flattened(cls, corners, order) :
                           corners \in {RotatePoints(cx.val, cy.val, w.val, h.val,
                                                     angle.val)}} : TRUE]

\* float() of the fields convert_line reads
ParsedFields(parts, default_angle) ==
    <<FloatParse(parts[2]), FloatParse(parts[3]), FloatParse(parts[4]), FloatParse(parts[5]),
      IF Len(parts) >= 6 THEN FloatParse(parts[6]) ELSE [ok |-> TRUE, val |-> default_angle]>>

\* convert_line that rejects nothing for its length
ConvertLineAnyLength(parts, angle_format, default_angle, order) ==
    IF Len(parts) = 9 THEN [ok |-> TRUE, parts |-> parts]
    ELSE [ok |-> TRUE, parts |-> FlattenedTurned(parts[1], "grouped")]

\* convert_line that converts lines of 9 fields like the others
ConvertLineNoPassThrough(parts, angle_format, default_angle, order) ==
    IF Len(parts) < 5 THEN [ok |-> FALSE, parts |-> <<>>]
    ELSE CHOOSE converted \in
             {ConvertParsed(parts[1], f[1], f[2], f[3], f[4], f[5], order) :
                f \in {ParsedFields(parts, default_angle)}} : TRUE

\* convert_line: ok is FALSE where it raises ValueError, parts are the fields
\* of the string it returns. Operands are bound once (f \in {...}), so that
\* each is computed a single time.
ConvertLine(parts, angle_format, default_angle, order) ==
    IF Len(parts) < 5 THEN [ok |-> FALSE, parts |-> <<>>]
    ELSE IF Len(parts) = 9 THEN [ok |-> TRUE, parts |-> parts]
    ELSE CHOOSE converted \in
             {ConvertParsed(parts[1], f[1], f[2], f[3], f[4], f[5], order) :
                f \in {ParsedFields(parts, default_angle)}} : TRUE

\* the non-blank lines of a text
RECURSIVE ObbNonBlank(_)
ObbNonBlank(lines) ==
    IF lines = <<>> THEN <<>>
    ELSE (IF lines[1].toks = <<>> THEN <<>> ELSE <<lines[1]>>) \o ObbNonBlank(Tail(lines))

\* process_file up to its write: whether convert_line raised, new_lines and changed
ProcessLines(text, args) ==
    CHOOSE p \in
        {[ok |-> \A i \in 1..Len(lines) : conv[i].ok,
          new_lines |-> [i \in 1..Len(lines) |-> ObbLine(conv[i].parts, "tidy")],
          changed |-> \E i \in 1..Len(lines) :
                          conv[i].parts # lines[i].toks \/ lines[i].space = "inside"] :
         conv \in {[i \in 1..Len(ObbNonBlank(text.lines)) |->
                      ConvertLine(ObbNonBlank(text.lines)[i].toks, args.angle_format,
                                  args.default_angle, args.order)] \o <<>>},
         lines \in {ObbNonBlank(text.lines)}} : TRUE

\* main up to its loop
ObbStart ==
    /\ ob_pc = "start"
    /\ IF ~ob_dir THEN ob_pc' = "FileNotFoundError"
       ELSE IF ob_files = <<>> THEN ob_pc' = "RuntimeError"
       ELSE ob_pc' = "loop"
    /\ UNCHANGED <<ob_dir, ob_files, ob_args, ob_i, ob_run, ob_changed, ob_written,
                   ob_printed, ob_orig, ob_prev>>
    /\ UNCHANGED obbRest

\* one iteration of main's loop: process_file(path, ...)
ObbFile ==
    /\ ob_pc = "loop"
    /\ ob_i <= Len(ob_files)
    /\ \E text \in {ob_files[ob_i]} : \E p \in {ProcessLines(text, ob_args)} :
           IF ~p.ok
           THEN /\ ob_pc' = "ValueError"
                /\ ob_printed' = Append(ob_printed, <<"Erro no arquivo", ob_i>>)
                /\ UNCHANGED <<ob_files, ob_i, ob_changed, ob_written>>
           ELSE /\ ob_files' = IF p.changed /\ ~ob_args.dry_run
                               THEN [ob_files EXCEPT
                                        ![ob_i] = Text(p.new_lines, text.nl /\ p.new_lines # <<>>)]
                               ELSE ob_files
                /\ ob_written' = IF p.changed /\ ~ob_args.dry_run
                                 THEN ob_written \cup {ob_i} ELSE ob_written
                /\ ob_changed' = IF p.changed THEN ob_changed \cup {ob_i} ELSE ob_changed
                /\ ob_printed' = IF p.changed /\ ob_args.dry_run
                                 THEN Append(ob_printed, <<"[dry-run] Atualizaria", ob_i>>)
                                 ELSE ob_printed
                /\ ob_i' = ob_i + 1
                /\ UNCHANGED ob_pc
    /\ UNCHANGED <<ob_dir, ob_args, ob_run, ob_orig, ob_prev>>
    /\ UNCHANGED obbRest

\* the print that ends main
ObbFinish ==
    /\ ob_pc = "loop"
    /\ ob_i > Len(ob_files)
    /\ ob_pc' = "done"
    /\ ob_printed' = Append(ob_printed, <<"arquivos atualizados", Cardinality(ob_changed)>>)
    /\ UNCHANGED <<ob_dir, ob_files, ob_args, ob_i, ob_run, ob_changed, ob_written,
                   ob_orig, ob_prev>>
    /\ UNCHANGED obbRest

\* after a run that wrote its changes, the script is started again on the
\* same tree, with any options
ObbAgain(args) ==
    /\ ob_pc = "done"
    /\ ob_run = 1
    /\ ~ob_args.dry_run
    /\ ob_run' = 2
    /\ ob_args' = args
    /\ ob_pc' = "start"
    /\ ob_i' = 1
    /\ ob_changed' = {}
    /\ ob_written' = {}
    /\ ob_printed' = <<>>
    /\ ob_prev' = ob_files
    /\ UNCHANGED <<ob_dir, ob_files, ob_orig>>
    /\ UNCHANGED obbRest

ObbRunIdle ==
    /\ ob_pc = "start"
    /\ ob_i = 1
    /\ ob_run = 1
    /\ ob_changed = {}
    /\ ob_written = {}
    /\ ob_printed = <<>>
    /\ ob_prev = <<>>

\* the fields the model draws
TokZero == <<"0">>
TokHalf == <<"0", ".", "5">>
TokFifth == <<"0", ".", "2">>
TokTenth == <<"0", ".", "1">>
TokJunk == <<"a", "b", "c">>
TokAngle == <<"1", ".", "5", "7">>

\* --default-angle as argparse's float() gives it
DefaultAngles == {FloatParse(TokZero).val, FloatParse(TokAngle).val}

ObbArgs ==
    [angle_format : {"radians", "degrees"}, default_angle : DefaultAngles,
     order : {"grouped", "interleaved"}, dry_run : BOOLEAN]

\* the options of the runs on whole trees: the defaults and their opposites
ObbFirstArgs ==
    {a \in ObbArgs : \/ (a.angle_format = "radians" /\ IsZeroAngle(a.default_angle)
                           /\ a.order = "grouped")
                     \/ (a.angle_format = "degrees" /\ ~IsZeroAngle(a.default_angle)
                           /\ a.order = "interleaved")}

ObbIdle ==
    /\ ob_dir = FALSE
    /\ ob_files = <<>>
    /\ ob_orig = <<>>
    /\ ob_args = [angle_format |-> "radians", default_angle |-> FNum(FALSE, FZeros),
                  order |-> "grouped", dry_run |-> FALSE]
    /\ ObbRunIdle

\* the lines of the trees: blank, too short, five fields with and without a
\* field that is no number, six fields, and nine fields, changed by the
\* script for their white space or not at all
ObbLines ==
    {ObbLine(<<>>, "tidy"),
     ObbLine(<<TokZero, TokHalf, TokHalf, TokFifth>>, "tidy"),
     ObbLine(<<TokZero, TokHalf, TokHalf, TokFifth, TokTenth>>, "tidy"),
     ObbLine(<<TokZero, TokHalf, TokJunk, TokFifth, TokTenth>>, "tidy"),
     ObbLine(<<TokZero, TokHalf, TokHalf, TokFifth, TokTenth, TokAngle>>, "ends"),
     ObbLine(<<TokZero>> \o [i \in 1..8 |-> TokHalf], "inside"),
     ObbLine(<<TokZero>> \o [i \in 1..8 |-> TokJunk], "ends")}

\* the trees of at most `files` files that hold at most `lines` lines in all;
\* a file that is not empty ends with a newline
RECURSIVE ObbTrees(_, _)
ObbTrees(files, lines) ==
    IF files = 0 THEN {<<>>}
    ELSE {<<>>} \cup
         UNION {{<<Text(t, t # <<>>)>> \o rest :
                    rest \in ObbTrees(files - 1, lines - Len(t)) \ {<<>>}}
                \cup {<<Text(t, t # <<>>)>>} :
                  t \in UNION {[1..k -> ObbLines] : k \in 0..lines}}

-----------------------------------------------------------------------------
(* api/index.py: the inference service *)

\* An upload is the sequence of its bytes, held in two parts: the signature
\* a file starts with and the picture it encodes. PIL opens what starts with
\* the signature of a format it knows.
KnownSignatures == {"PNG", "JPEG"}

Decodable(bytes) == Len(bytes) = 2 /\ bytes[1] \in KnownSignatures

\* Image.open that takes any bytes for an image
ImageOpenAnyBytes(contents) ==
    [ok |-> TRUE, image |-> IF Len(contents) >= 2 THEN contents[2] ELSE "none"]

\* Image.open(io.BytesIO(contents)).convert("RGB"): ok is FALSE where it raises
ImageOpen(contents) ==
    IF Decodable(contents) THEN [ok |-> TRUE, image |-> contents[2]]
    ELSE [ok |-> FALSE, image |-> "none"]

\* len(prediction.boxes) of model.predict(image, ...)[0]: the boxes the loaded
\* weights find in the picture
ModelPredict(model, image) ==
    IF model.weights = "best.pt" /\ image = "two motos" THEN 2
    ELSE IF model.weights = "best.pt" /\ image = "one moto" THEN 1
    ELSE 0

NoResponse == [status |-> 0, media_type |-> "", headers |-> <<>>, body |-> <<>>]

\* raise HTTPException(status_code=400, detail=...)
BadRequest(detail) ==
    [status |-> 400, media_type |-> "application/json", headers |-> <<>>,
     body |-> <<"detail", detail>>]

\* StreamingResponse(buffer, media_type="image/jpeg", headers=headers)
JpegResponse(image, boxes, millis, path) ==
    [status |-> 200, media_type |-> "image/jpeg",
     headers |-> <<<<"X-Inference-Time", millis>>, <<"X-Detections", boxes>>,
                   <<"X-Model-Path", path>>>>,
     body |-> <<"JPEG", image, boxes>>]

\* a client sends POST /predict with an upload
ApiPost(upload) ==
    /\ Len(ap_reqs) < MaxRequests
    /\ ap_reqs' = Append(ap_reqs, [upload |-> upload, pc |-> "read", contents |-> <<>>,
                                   response |-> NoResponse])
    /\ UNCHANGED <<ap_model, ap_predicts>>
    /\ UNCHANGED apiRest

\* predict up to its await: contents = await file.read()
ApiRead(i) ==
    /\ ap_reqs[i].pc = "read"
    /\ ap_reqs' = [ap_reqs EXCEPT ![i].contents = ap_reqs[i].upload, ![i].pc = "handle"]
    /\ UNCHANGED <<ap_model, ap_predicts>>
    /\ UNCHANGED apiRest

\* predict after its await, up to its return or raise; model.predict takes
\* millis milliseconds
ApiPredict(i, millis) ==
    /\ ap_reqs[i].pc = "handle"
    /\ \E contents \in {ap_reqs[i].contents} : \E opened \in {ImageOpen(contents)} :
           IF contents = <<>>
           THEN /\ ap_reqs' = [ap_reqs EXCEPT
                                  ![i].response = BadRequest("Nenhum arquivo foi enviado."),
                                  ![i].pc = "done"]
                /\ UNCHANGED ap_predicts
           ELSE IF ~opened.ok
           THEN /\ ap_reqs' = [ap_reqs EXCEPT
                                  ![i].response = BadRequest("Nao foi possivel abrir a imagem."),
                                  ![i].pc = "done"]
                /\ UNCHANGED ap_predicts
           ELSE /\ ap_predicts' = Append(ap_predicts, i)
                /\ ap_reqs' = [ap_reqs EXCEPT
                                  ![i].response =
                                      JpegResponse(opened.image,
                                                   ModelPredict(ap_model, opened.image),
                                                   millis, ap_model.path),
                                  ![i].pc = "done"]
    /\ UNCHANGED ap_model
    /\ UNCHANGED apiRest

\* the module after import: MODEL_PATH exists and the model is loaded
ModelLoaded == [path |-> "weights/best.pt", weights |-> "best.pt"]

ApiIdle ==
    /\ ap_model = ModelLoaded
    /\ ap_reqs = <<>>
    /\ ap_predicts = <<>>

\* the uploads the model draws: no bytes, bytes that are no image, two images
Uploads == {<<>>, <<"junk">>, <<"PNG", "one moto">>, <<"JPEG", "two motos">>}

-----------------------------------------------------------------------------
(* Specifications *)

\* directories that hold at most one image and one label of a stem
InitSplit ==
    /\ \E I \in SUBSET Stems : imgFiles = {RootFile(s, "jpg") : s \in I}
    /\ \E L \in SUBSET Stems : lblFiles = {RootFile(s, "txt") : s \in L}
    /\ SplitIdle
    /\ SyncIdle
    /\ NormIdle
    /\ AuditIdle
    /\ PolyIdle
    /\ ApiIdle
    /\ ObbIdle

\* directories whose subdirectories may hold a second file of a stem
ImageChoices(s) ==
    {{}, {RootFile(s, "jpg")}, {RootFile(s, "jpg"), SubFile(s, "jpg")},
     {RootFile(s, "jpg"), RootFile(s, "png")}}
LabelChoices(s) ==
    {{}, {RootFile(s, "txt")}, {RootFile(s, "txt"), SubFile(s, "txt")}}

InitRerun ==
    /\ imgFiles \in PerStem(DupStems, [s \in DupStems |-> ImageChoices(s)])
    /\ lblFiles \in PerStem(DupStems, [s \in DupStems |-> LabelChoices(s)])
    /\ SplitIdle
    /\ SyncIdle
    /\ NormIdle
    /\ AuditIdle
    /\ PolyIdle
    /\ ApiIdle
    /\ ObbIdle

NextSplit ==
    \/ Gather
    \/ \E r \in RatioTriples, sd \in Seeds : SplitDataset(r, sd)
    \/ EnsureDirs
    \/ CopyPairs("train", "copy_train", "copy_val")
    \/ CopyPairs("val", "copy_val", "copy_test")
    \/ CopyPairs("test", "copy_test", "done")

NextRerun ==
    \/ Gather
    \/ \E r \in RerunRatios, sd \in Seeds : SplitDataset(r, sd)
    \/ EnsureDirs
    \/ CopyPairs("train", "copy_train", "copy_val")
    \/ CopyPairs("val", "copy_val", "copy_test")
    \/ CopyPairs("test", "copy_test", "done")
    \/ RunAgain

SpecSplit == InitSplit /\ [][NextSplit]_vars
SpecRerun == InitRerun /\ [][NextRerun]_vars

\* source and target directories of a few stems, any options
InitSync ==
    /\ sy_src_imgs \in PerStem(SyncStems, [s \in SyncStems |-> SrcImageChoices(s)])
    /\ \E L \in SUBSET SyncStems : sy_src_lbls = [s \in L |-> SampleText]
    /\ \E ti \in PerStem(SyncStems, [s \in SyncStems |-> TgtImageChoices(s)]), tl \in PerStem(SyncStems, [s \in SyncStems |-> TgtLabelChoices(s)]) :
         sy_target = ti \cup tl
    /\ sy_dirs = {<<f.kind, f.split>> : f \in sy_target}
    /\ \E d \in Range(Splits), dry \in BOOLEAN :
         sy_args = [default_split |-> d, angle |-> "0.0", dry_run |-> dry]
    /\ SyncRunIdle
    /\ SplitIdle /\ imgFiles = {} /\ lblFiles = {}
    /\ NormIdle
    /\ AuditIdle
    /\ PolyIdle
    /\ ApiIdle
    /\ ObbIdle

\* one source label of any text, an empty target
InitSyncLabel ==
    /\ sy_src_imgs = {}
    /\ \E t \in Texts : sy_src_lbls = [s \in {1} |-> t]
    /\ sy_target = {}
    /\ sy_dirs = {}
    /\ \E a \in Angles : sy_args = [default_split |-> "train", angle |-> a, dry_run |-> FALSE]
    /\ SyncRunIdle
    /\ SplitIdle /\ imgFiles = {} /\ lblFiles = {}
    /\ NormIdle
    /\ AuditIdle
    /\ PolyIdle
    /\ ApiIdle
    /\ ObbIdle

\* a labels tree of any raw texts, with or without --dry-run
InitNorm ==
    /\ nm_files \in NormTrees(MaxNormFiles, MaxLines)
    /\ nm_dry \in BOOLEAN
    /\ NormRunIdle
    /\ SplitIdle /\ imgFiles = {} /\ lblFiles = {}
    /\ SyncIdle
    /\ AuditIdle
    /\ PolyIdle
    /\ ApiIdle
    /\ ObbIdle

NextNorm ==
    \/ NormStart
    \/ NormFile
    \/ NormFinish
    \/ NormAgain

SpecNorm == InitNorm /\ [][NextNorm]_vars

\* a dry run on any tree, and then a run without --dry-run on the same tree
InitPreview ==
    /\ nm_files \in NormTrees(MaxNormFiles, MaxLines)
    /\ nm_dry = TRUE
    /\ NormRunIdle
    /\ SplitIdle /\ imgFiles = {} /\ lblFiles = {}
    /\ SyncIdle
    /\ AuditIdle
    /\ PolyIdle
    /\ ApiIdle
    /\ ObbIdle

NextPreview ==
    \/ NormStart
    \/ NormFile
    \/ NormFinish
    \/ NormForReal

SpecPreview == InitPreview /\ [][NextPreview]_vars

\* any tree, any list of splits, on either kind of file system
InitAudit ==
    /\ au_files \in AuditTrees
    /\ au_case \in BOOLEAN
    /\ au_splits \in UNION {[1..k -> AuditSplitNames] : k \in 1..MaxSplitArgs}
    /\ au_limit \in AuditLimits
    /\ AuditRunIdle
    /\ SplitIdle /\ imgFiles = {} /\ lblFiles = {}
    /\ SyncIdle
    /\ NormIdle
    /\ PolyIdle
    /\ ApiIdle
    /\ ObbIdle

NextAudit ==
    \/ AuditSplit
    \/ AuditFinish

SpecAudit == InitAudit /\ [][NextAudit]_vars

\* box_motos missing, or holding any files
InitPoly ==
    /\ pg_dir \in BOOLEAN
    /\ pg_files \in (IF pg_dir THEN PolyTrees(MaxPolyFiles, MaxPolyLines) ELSE {<<>>})
    /\ PolyRunIdle
    /\ SplitIdle /\ imgFiles = {} /\ lblFiles = {}
    /\ SyncIdle
    /\ NormIdle
    /\ AuditIdle
    /\ ObbIdle
    /\ ApiIdle

NextPoly ==
    \/ PolyStart
    \/ PolyLine
    \/ PolyWrite

SpecPoly == InitPoly /\ [][NextPoly]_vars

\* labels_dir missing, or holding any tree
InitObb ==
    /\ ob_dir \in BOOLEAN
    /\ ob_files \in (IF ob_dir THEN ObbTrees(MaxObbFiles, MaxObbLines) ELSE {<<>>})
    /\ ob_orig = ob_files
    /\ ob_args \in ObbFirstArgs
    /\ ObbRunIdle
    /\ SplitIdle /\ imgFiles = {} /\ lblFiles = {}
    /\ SyncIdle
    /\ NormIdle
    /\ AuditIdle
    /\ PolyIdle
    /\ ApiIdle

NextObb ==
    \/ ObbStart
    \/ ObbFile
    \/ ObbFinish
    \/ \E args \in ObbArgs : ObbAgain(args)

SpecObb == InitObb /\ [][NextObb]_vars

\* one line of five fields, given to both converters, the oriented box
\* converter with its default options
LongToken == <<"0", ".", "1", "2", "3", "4", "5", "6", "7", "8", "9", "0", "1", "2", "3", "4",
               "5", "6", "8">>

EquivLines ==
    {l \in PolyLines : Len(l) = 5}
    \cup {<<TokZero, LongToken, TokHalf, TokFifth, TokTenth>>}

InitEquiv ==
    /\ \E line \in EquivLines :
           /\ pg_files = <<<<line>>>>
           /\ ob_files = <<Text(<<ObbLine(line, "tidy")>>, TRUE)>>
    /\ pg_dir = TRUE
    /\ PolyRunIdle
    /\ ob_dir = TRUE
    /\ ob_orig = ob_files
    /\ ob_args = [angle_format |-> "radians", default_angle |-> FNum(FALSE, FZeros),
                  order |-> "grouped", dry_run |-> FALSE]
    /\ ObbRunIdle
    /\ SplitIdle /\ imgFiles = {} /\ lblFiles = {}
    /\ SyncIdle
    /\ NormIdle
    /\ AuditIdle
    /\ ApiIdle

NextEquiv ==
    \/ PolyStart
    \/ PolyLine
    \/ PolyWrite
    \/ ObbStart
    \/ ObbFile
    \/ ObbFinish

SpecEquiv == InitEquiv /\ [][NextEquiv]_vars

InitApi ==
    /\ ApiIdle
    /\ SplitIdle /\ imgFiles = {} /\ lblFiles = {}
    /\ SyncIdle
    /\ NormIdle
    /\ AuditIdle
    /\ PolyIdle
    /\ ObbIdle

NextApi ==
    \/ \E upload \in Uploads : ApiPost(upload)
    \/ \E i \in 1..Len(ap_reqs) : ApiRead(i)
    \/ \E i \in 1..Len(ap_reqs) : \E millis \in 0..MaxMillis : ApiPredict(i, millis)

SpecApi == InitApi /\ [][NextApi]_vars

NextSync ==
    \/ SyncStart
    \/ SyncStem
    \/ SyncFinish
    \/ SyncAgain

NextSyncLabel ==
    \/ SyncStart
    \/ SyncStem
    \/ SyncFinish

SpecSync == InitSync /\ [][NextSync]_vars
SpecSyncLabel == InitSyncLabel /\ [][NextSyncLabel]_vars

-----------------------------------------------------------------------------
(* Properties of the splitter *)

PostSplit == sp_pc \in {"split", "copy_train", "copy_val", "copy_test", "done"}

Occurrences(seq, x) == Cardinality({i \in 1..Len(seq) : seq[i] = x})

SplitLists == <<split_data.train, split_data.val, split_data.test>>

NonNegative(r) == r[1] >= 0 /\ r[2] >= 0 /\ r[3] >= 0

\* C1: after split_dataset has accepted the ratios, every input pair is in
\* exactly one of train, val and test, and the three lists hold input pairs only.
C1_Partition ==
    PostSplit =>
        /\ \A p \in Range(pairs) :
             Occurrences(split_data.train, p) + Occurrences(split_data.val, p)
               + Occurrences(split_data.test, p) = 1
        /\ \A i \in 1..3 : Range(SplitLists[i]) \subseteq Range(pairs)

\* C2, as claimed: each of the three sizes differs from n times its ratio by
\* less than 1 (sizes and ratios scaled by Den).
C2_SizesWithinOne ==
    PostSplit =>
        \A i \in 1..3 : Abs(Den * Len(SplitLists[i]) - Len(pairs) * ratios[i]) < Den

\* C2, amended: with non-negative ratios, train and val hold floor(n * ratio)
\* pairs, less than 1 below n times the ratio, and test holds the rest, which
\* is at least n times its ratio and exceeds it by less than 2.
C2_SizesFloorAndRest ==
    (PostSplit /\ NonNegative(ratios)) =>
        LET n == Len(pairs)
            tr == Len(split_data.train)
            va == Len(split_data.val)
            te == Len(split_data.test)
        IN  /\ Den * tr <= n * ratios[1] /\ n * ratios[1] < Den * (tr + 1)
            /\ Den * va <= n * ratios[2] /\ n * ratios[2] < Den * (va + 1)
            /\ te = n - tr - va
            /\ n * ratios[3] <= Den * te /\ Den * te < n * ratios[3] + 2 * Den

\* a split of three pairs whose test list is one pair or more over its share
C2_Witness ==
    /\ PostSplit /\ NonNegative(ratios)
    /\ Len(pairs) = 3
    /\ Den * Len(split_data.test) >= Len(pairs) * ratios[3] + Den

StemsOfList(l) == [i \in 1..Len(l) |-> l[i].img.stem]

\* C3, as claimed: the second run assigns the same pairs (image file, label
\* file) to every split as the first run did.
C3_SamePairs ==
    (run = 2 /\ PostSplit) => split_data = prev_split

\* C3, amended: the second run assigns the same stems, in the same order, to
\* every split as the first run did.
C3_SameStems ==
    (run = 2 /\ PostSplit) =>
        \A i \in 1..3 : StemsOfList(split_data[Splits[i]]) = StemsOfList(prev_split[Splits[i]])

\* a second run that split two or more pairs over more than one list
C3_Witness ==
    /\ run = 2 /\ PostSplit
    /\ Len(pairs) >= 2
    /\ Len(split_data.train) < Len(pairs)
    /\ \E f, g \in imgFiles : f.stem = g.stem /\ f.ext = g.ext /\ f # g

CommonStems == {f.stem : f \in imgFiles} \cap {f.stem : f \in lblFiles}

\* C8: a run whose ratios do not sum to 1 or that finds no pair ends with an
\* error, and a run that ended with an error created no directory and copied
\* no file.
C8_FailFast ==
    /\ (ratios # <<>> /\ Abs(SumSeq(ratios) - Den) * 1000000 > Den) => sp_pc = "error"
    /\ (sp_pc # "start" /\ CommonStems = {}) => sp_pc = "error"
    /\ sp_pc = "error" => (sp_err # "" /\ out_dirs = {} /\ out_files = {})

\* a run that found pairs and was stopped by its ratios
C8_Witness ==
    /\ sp_pc = "error"
    /\ sp_err = "ValueError: ratios"
    /\ CommonStems # {}
    /\ SumSeq(ratios) # Den

-----------------------------------------------------------------------------
(* Properties of the sync *)

\* C4: throughout a second non-dry run that follows a completed non-dry run,
\* both counters are 0 and the target holds the files and directories it held
\* when the second run started.
C4_SecondSyncCopiesNothing ==
    (sy_run = 2 /\ ~sy_args.dry_run) =>
        /\ sy_added = [imgs |-> 0, lbls |-> 0]
        /\ sy_target = sy_before.target
        /\ sy_dirs = sy_before.dirs

\* a second run that ended after a first run that copied an image and a label
C4_Witness ==
    /\ sy_run = 2 /\ sy_pc = "done" /\ ~sy_args.dry_run
    /\ sy_prev_added.imgs > 0 /\ sy_prev_added.lbls > 0

SplitsHolding(files, kind, stem) ==
    {f.split : f \in {g \in files : g.kind = kind /\ g.stem = stem}}

\* C9: a file the current run has put into the target lies in a split that
\* held an image of its stem when the run started, else in one that held a
\* label of its stem, else in the default split.
C9_DestinationSplit ==
    \A f \in sy_target \ sy_before.target :
        LET imgS == SplitsHolding(sy_before.target, "images", f.stem)
            lblS == SplitsHolding(sy_before.target, "labels", f.stem)
        IN  IF imgS # {} THEN f.split \in imgS
            ELSE IF lblS # {} THEN f.split \in lblS
            ELSE f.split = sy_args.default_split

\* an image copied next to a label the target held in a split other than the default
C9_Witness ==
    \E f \in sy_target \ sy_before.target :
        /\ f.kind = "images"
        /\ SplitsHolding(sy_before.target, "labels", f.stem) # {}
        /\ f.split # sy_args.default_split

RECURSIVE NonBlank(_)
NonBlank(lines) ==
    IF lines = <<>> THEN <<>>
    ELSE IF Head(lines) = <<>> THEN NonBlank(Tail(lines))
    ELSE <<Head(lines)>> \o NonBlank(Tail(lines))

CopiedLabels == {f \in sy_target \ sy_before.target : f.kind = "labels"}

-----------------------------------------------------------------------------
(* Properties of the normalizer *)

\* C5: throughout a second non-dry pass that follows a completed non-dry
\* pass, rewrite_file has returned True for no file and has written no file,
\* the tree is as the first pass left it, and the count printed at the end is 0.
C5_SecondPassChangesNothing ==
    (nm_run = 2 /\ ~nm_dry /\ nm_pc # "start") =>
        /\ nm_changed = {}
        /\ nm_written = {}
        /\ nm_files = nm_prev.files
        /\ nm_pc = "done" => nm_printed[Len(nm_printed)][1] = 0

\* a second pass that ended after a first pass that rewrote a file
C5_Witness ==
    /\ nm_run = 2 /\ ~nm_dry /\ nm_pc = "done"
    /\ nm_prev.written # {}

\* the files a run printed as 'Would update'
WouldUpdate(printed) ==
    {printed[k][2] : k \in {n \in 1..Len(printed) :
                                Len(printed[n]) = 2 /\ printed[n][1] = "Would update"}}

\* C14: a dry run leaves every label file as it is and writes none; and when
\* a run without --dry-run on the same tree has followed it to its end, the
\* files that run has rewritten are the files the dry run printed as 'Would
\* update', and their number is the count the dry run printed at its end.
C14_PreviewTellsTheRewrites ==
    /\ [][nm_dry => nm_files' = nm_files]_vars
    /\ [](nm_dry => nm_written = {})
    /\ []((nm_run = 2 /\ nm_pc = "done") =>
              /\ nm_written = WouldUpdate(nm_prev.printed)
              /\ nm_changed = WouldUpdate(nm_prev.printed)
              /\ \A i \in 1..Len(nm_files) :
                     (nm_files[i] # nm_prev.files[i]) = (i \in WouldUpdate(nm_prev.printed))
              /\ nm_prev.printed[Len(nm_prev.printed)][1] = Cardinality(nm_written))

\* a dry run that printed a file as 'Would update', followed to its end by a
\* run that rewrote it
C14_Witness ==
    /\ nm_run = 2 /\ nm_pc = "done" /\ ~nm_dry
    /\ WouldUpdate(nm_prev.printed) # {}
    /\ nm_written # {}
    /\ nm_files # nm_prev.files

-----------------------------------------------------------------------------
(* Properties of the auditor *)

\* the label files of the audited splits that have no same-stem image
OrphanLabels ==
    {f \in au_files :
        /\ f.kind = "labels" /\ f.ext = "txt"
        /\ f.split \in Range(au_splits)
        /\ ~\E g \in au_files : g.kind = "images" /\ g.split = f.split /\ g.stem = f.stem}

\* how many times the reports of the given splits list the name
TimesListed(name, splits) ==
    Cardinality(UNION {{<<i, j>> : j \in {k \in 1..Len(au_reports[i].missing_img) :
                                            au_reports[i].missing_img[k] = name}} :
                       i \in {h \in 1..Len(au_reports) : au_reports[h].split \in splits}})

\* every name a report lists as a label without image is a label file of the
\* report's own split
ListsOwnLabelsOnly ==
    \A i \in 1..Len(au_reports) :
        \A n \in Range(au_reports[i].missing_img) :
            \E f \in au_files :
                f.kind = "labels" /\ f.split = au_reports[i].split /\ AuditName(f) = n

\* C6 as stated: when the audit is over, every label file of an audited split
\* that has no same-stem image is listed as a label without image exactly once
\* in all that was printed for its split, and the report of another split lists
\* no file of this split.
C6_ReportedExactlyOnce ==
    au_pc = "done" =>
        /\ \A f \in OrphanLabels : TimesListed(AuditName(f), {f.split}) = 1
        /\ ListsOwnLabelsOnly

\* C6 amended: when the audit is over, every label file of an audited split
\* that has no same-stem image is listed as a label without image exactly once
\* in each report printed for its split, one report for each time --splits
\* names the split, and the report of another split lists no file of this split.
C6_OncePerReportOfItsSplit ==
    au_pc = "done" =>
        /\ \A f \in OrphanLabels :
               /\ \E i \in 1..Len(au_reports) : au_reports[i].split = f.split
               /\ \A i \in 1..Len(au_reports) :
                      au_reports[i].split = f.split =>
                          Occurrences(au_reports[i].missing_img, AuditName(f)) = 1
        /\ ListsOwnLabelsOnly

\* the audit of two different splits is over, one of them holds a label with
\* no same-stem image and the other does not
C6_Witness ==
    /\ au_pc = "done"
    /\ Len(au_splits) = 2 /\ au_splits[1] # au_splits[2]
    /\ \E f \in OrphanLabels :
           /\ \A g \in OrphanLabels : g.split = f.split
           /\ \E i \in 1..Len(au_reports) :
                  au_reports[i].split = f.split /\ AuditName(f) \in Range(au_reports[i].missing_img)

-----------------------------------------------------------------------------
(* Properties of the box to polygon converter *)

\* (lo + hi) / 2 = center and hi - lo = extent, in exact arithmetic
RoundTrip(lo, hi, center, extent) ==
    /\ ~lo.nan /\ ~hi.nan /\ ~center.nan /\ ~extent.nan
    /\ ExactAdd(lo, hi) = ExactAdd(center, center)
    /\ ExactAdd(hi, Negate(lo)) = extent

\* extent / 2, center - extent / 2 and center + extent / 2 are numbers of at
\* most Prec significant digits
FitsPrec(center, extent) ==
    /\ ~center.nan /\ ~extent.nan
    /\ RoundDec(ExactHalf(extent)) = ExactHalf(extent)
    /\ RoundDec(ExactAdd(center, Negate(ExactHalf(extent)))) =
           ExactAdd(center, Negate(ExactHalf(extent)))
    /\ RoundDec(ExactAdd(center, ExactHalf(extent))) = ExactAdd(center, ExactHalf(extent))

\* the source line a converted line was made from
SourceOf(k) == pg_files[pg_f][pg_origin[k]]

AuditStemsOf(files) == {f.stem : f \in files}

\* C11: in every report, the labels listed as lacking an image are the label
\* files of the split whose stem is the stem of no image the auditor counts
\* there, and the images listed as lacking a label are the counted images whose
\* stem is the stem of no label file of the split; so no stem is both counted
\* as an image and listed as a label without image.
C11_SetDifferenceByStem ==
    \A i \in 1..Len(au_reports) :
        LET split == au_reports[i].split
        IN  /\ Range(au_reports[i].missing_img) =
                   {AuditName(l) : l \in {f \in LabelsIn(split) :
                                             f.stem \notin AuditStemsOf(ImagesIn(split))}}
            /\ Range(au_reports[i].missing_lbl) =
                   {AuditName(g) : g \in {f \in ImagesIn(split) :
                                             f.stem \notin AuditStemsOf(LabelsIn(split))}}
            /\ \A n \in Range(au_reports[i].missing_img) :
                   n[1] \notin AuditStemsOf(ImagesIn(split))

-----------------------------------------------------------------------------
(* Properties of the oriented-box converter *)

\* the least member of a set of numbers that is not empty
Least(S) == CHOOSE i \in S : \A j \in S : i <= j

\* a non-blank line with fewer than 5 fields, or with a field after the class
\* that is not a number
BadLineAnywhere(line) ==
    /\ line.toks # <<>>
    /\ \/ Len(line.toks) < 5
       \/ \E k \in 2..Len(line.toks) : ~FloatParse(line.toks[k]).ok

\* a non-blank line with fewer than 5 fields, or that has not 9 fields and has
\* among its fields 2 to 6 one that is not a number
BadLineParsed(line) ==
    /\ line.toks # <<>>
    /\ \/ Len(line.toks) < 5
       \/ /\ Len(line.toks) # 9
          /\ \E k \in 2..Len(line.toks) : k <= 6 /\ ~FloatParse(line.toks[k]).ok

\* the files of the tree the run started on that hold such a line
BadFilesAnywhere ==
    {i \in 1..Len(ob_orig) :
        \E l \in 1..Len(ob_orig[i].lines) : BadLineAnywhere(ob_orig[i].lines[l])}

BadFilesParsed ==
    {i \in 1..Len(ob_orig) :
        \E l \in 1..Len(ob_orig[i].lines) : BadLineParsed(ob_orig[i].lines[l])}

\* a file needs conversion when a non-blank line of it has not 9 fields or is
\* not written with single blanks between them
NeedsConversion(text) ==
    \E l \in 1..Len(text.lines) :
        /\ text.lines[l].toks # <<>>
        /\ Len(text.lines[l].toks) # 9 \/ text.lines[l].space = "inside"

\* the run has ended with an error that names file f; f and the files after
\* it are as they were
AbortedAt(f) ==
    /\ ob_pc = "ValueError"
    /\ ob_printed # <<>>
    /\ ob_printed[Len(ob_printed)] = <<"Erro no arquivo", f>>
    /\ \A j \in f..Len(ob_files) : ob_files[j] = ob_orig[j]

Ended == ob_run = 1 /\ ob_pc \in {"done", "ValueError"}

C16_SecondRunChangesNothing ==
    /\ (ob_pc = "done" /\ (ob_run = 2 \/ ~ob_args.dry_run)) =>
           \A f \in 1..Len(ob_files) : \A l \in 1..Len(ob_files[f].lines) :
               Len(ob_files[f].lines[l].toks) \in {0, 9}
    /\ ob_run = 2 =>
           /\ ob_pc \in {"start", "loop", "done"}
           /\ ob_changed = {}
           /\ ob_written = {}
           /\ ob_files = ob_prev
           /\ ob_pc = "done" => ob_printed = <<<<"arquivos atualizados", 0>>>>

\* a second run has ended, with other options than the first, on a tree of
\* two files that the first run rewrote, one from a line of five fields and
\* one from a line of 9 fields
C16_Witness ==
    /\ ob_run = 2 /\ ob_pc = "done"
    /\ ob_args.order = "interleaved" /\ ob_args.angle_format = "degrees"
    /\ ~IsZeroAngle(ob_args.default_angle) /\ ~ob_args.dry_run
    /\ Len(ob_orig) = 2
    /\ \A f \in 1..2 : ob_prev[f] # ob_orig[f]
    /\ Len(ob_orig[1].lines) = 1 /\ Len(ob_orig[1].lines[1].toks) = 5
    /\ Len(ob_orig[2].lines) = 1 /\ Len(ob_orig[2].lines[1].toks) = 9
    /\ ob_prev[1].lines[1].toks[2] = <<"0", ".", "4">>

-----------------------------------------------------------------------------
(* Properties of the inference service *)

\* how many times model.predict was called for request i
Inferences(i) == Cardinality({k \in 1..Len(ap_predicts) : ap_predicts[k] = i})

HeaderOf(response, name) ==
    {response.headers[k][2] : k \in {n \in 1..Len(response.headers) :
                                        response.headers[n][1] = name}}

\* C13: a request whose upload is empty or cannot be decoded as an image is
\* answered with status 400 and inference is never run for it; every other
\* request, once answered, has run inference exactly once and carries a JPEG
\* with the headers X-Inference-Time, X-Detections and X-Model-Path, whose
\* values come from its own upload and the loaded model; a request not yet
\* answered has run no inference; and the loaded model and its path, the only
\* state requests share, stay as they were loaded.
C13_PredictErrors ==
    /\ ap_model = ModelLoaded
    /\ \A k \in 1..Len(ap_predicts) : ap_predicts[k] \in 1..Len(ap_reqs)
    /\ \A i \in 1..Len(ap_reqs) :
           LET r == ap_reqs[i]
           IN  IF r.pc # "done" THEN Inferences(i) = 0 /\ r.response = NoResponse
               ELSE IF r.upload = <<>> \/ ~Decodable(r.upload)
               THEN r.response.status = 400 /\ Inferences(i) = 0
               ELSE /\ Inferences(i) = 1
                    /\ r.response.status = 200
                    /\ r.response.media_type = "image/jpeg"
                    /\ r.response.body[1] = "JPEG"
                    /\ Len(r.response.headers) = 3
                    /\ Cardinality(HeaderOf(r.response, "X-Inference-Time")) = 1
                    /\ HeaderOf(r.response, "X-Detections") =
                           {ModelPredict(ModelLoaded, r.upload[2])}
                    /\ HeaderOf(r.response, "X-Model-Path") = {ModelLoaded.path}

\* an image, an empty upload and bytes that are no image have been received
\* and answered, inference having run for the image alone
C13_Witness ==
    /\ Len(ap_reqs) = 3
    /\ \A i \in 1..3 : ap_reqs[i].pc = "done"
    /\ ap_reqs[1].upload = <<"JPEG", "two motos">>
    /\ ap_reqs[2].upload = <<>>
    /\ ap_reqs[3].upload = <<"junk">>
    /\ ap_reqs[1].response.status = 200
    /\ ap_reqs[2].response.status = 400
    /\ ap_reqs[3].response.status = 400
    /\ ap_predicts = <<1>>

-----------------------------------------------------------------------------
(* Properties of the two converters on one line *)

\* a Decimal that format_float's digits after the point can write: a number
\* with nothing after them, or NaN
FitsFormat(d) == \A i \in 1..DecWidth : i > IntDigits + FormatDecimals => d.dig[i] = 0

BothConverted == pg_pc = "done" /\ ob_pc = "done"

\* the line the box to polygon converter wrote and the fields of the line the
\* oriented box converter wrote
PolygonLine == pg_dest[1].lines[1]

CornerFields == ob_files[1].lines[1].toks

FiniteCorners == \A k \in 1..8 : ~PolygonLine.coords[k].nan

=============================================================================
